---- MODULE Spec2Model ----
(***************************************************************************)
(* Calibration and signal-conditioning engine of ardu-r2r-midi-cv          *)
(* (src/calibration.cpp, include/calibration.h, dac.cpp, utils.h, main.cpp)*)
(*                                                                         *)
(* Representation of the C++ values:                                       *)
(*  - the hardware clock is hw.now in microseconds (micros()); millis() is *)
(*    hw.now \div 1000;                                                    *)
(*  - float frequencies are integers in millihertz;                        *)
(*  - float millivolt targets are integers in 1/600 mV, which represents   *)
(*    exactly both the direct formula (multiples of 5/6 mV) and the        *)
(*    interpolation (multiples of 1/100 mV);                               *)
(*  - gain offsets are integers in 1/1000;                                 *)
(*  - 1200*log2(f/440) is computed by search in a table of the half-cent   *)
(*    boundaries of one octave;                                            *)
(*  - the functions of the program are operators on a record m of the      *)
(*    objects they touch (cal, dac, eeprom, dip_states) and of what they   *)
(*    did (evt, nv, wr, oob).                                              *)
(***************************************************************************)
EXTENDS Integers, Sequences, FiniteSets, TLC

\* ------------------------------------------------------------------------
\* Program constants (include/calibration.h, include/dac.h)
\* ------------------------------------------------------------------------
BTN_DEBOUNCE == 240
BTN_LONG_PRESS == 1000
CALIB_VCO_START_DEV_CENTS == 10
CALIB_VCO_START_DELAY_INIT == 5000
CALIB_VCO_START_DELAY_LINEARITY == 2000
CALIB_VCO_DELAY_BETWEEN_MV == 10
CALIB_VCO_MV_MIN == 10
CALIB_DAC_TARGET_GAIN_1 == 3000
CALIB_DAC_TARGET_GAIN_2 == 3000
VCO_LAST_CENTS_STAB == 5
INTERNAL_VREF_MV == 1100
GAIN_1_BASE == 1824
GAIN_2_BASE == 1824
DAC_MAX == 4095
SIGNAL_TIMEOUT_US == 2000000
INT16_MAX == 32767
INT16_MIN == -32768
UNSET == 255
NOTE_START_1_CENTS == 6000
NOTE_START_2_CENTS == 6000
MATRIX_LEN == 116

\* CALIB_VCO_MAX_SCALE (.95f) and CALIB_VCO_FREQ_FILTER_K (0.994f) as fractions
CALIB_VCO_MAX_SCALE_PCT == 95
FILTER_NEW_PERMILLE == 6

\* dac.set()'s "leave unchanged" argument (NAN)
NAN == 0 - 1

PrepStages == {"PREP_GAIN_1", "PREP_GAIN_2", "PREP_TUNER", "PREP_VCO_1", "PREP_VCO_2",
               "PREP_RESET_VCO_1", "PREP_RESET_VCO_2"}
CalibStage == PrepStages \cup {"NONE", "GAIN_1", "GAIN_2", "TUNER", "VCO_1", "VCO_2", "DONE", "ERROR"}
CalibVcoStage == {"NONE", "TUNER", "LOWER", "LINEARITY"}

Max(a, b) == IF a >= b THEN a ELSE b

\* The element of a one-element set. The statements of a function are written
\* as nested sets { step2(m2) : m2 \in { step1(m1) : m1 \in {m} } }: each m_i is
\* the state the statements before it have left.
The(S) == CHOOSE x \in S : TRUE

\* ------------------------------------------------------------------------
\* include/utils.h
\* ------------------------------------------------------------------------

\* HalfCent[k + 1], k = 0..1200: the smallest frequency in mHz whose distance
\* from 440 Hz, 1200*log2(f/440), rounds to k cents or more.
HalfCent == <<
    439873, 440128, 440382, 440636, 440891, 441146, 441401, 441656, 441911, 442166, 442422, 442677,
    442933, 443189, 443445, 443701, 443958, 444214, 444471, 444728, 444985, 445242, 445499, 445756,
    446014, 446272, 446529, 446787, 447046, 447304, 447562, 447821, 448080, 448339, 448598, 448857,
    449116, 449376, 449635, 449895, 450155, 450415, 450675, 450936, 451196, 451457, 451718, 451979,
    452240, 452501, 452763, 453024, 453286, 453548, 453810, 454072, 454335, 454597, 454860, 455123,
    455386, 455649, 455912, 456175, 456439, 456703, 456967, 457231, 457495, 457759, 458024, 458288,
    458553, 458818, 459083, 459348, 459614, 459879, 460145, 460411, 460677, 460943, 461209, 461476,
    461742, 462009, 462276, 462543, 462811, 463078, 463346, 463613, 463881, 464149, 464417, 464686,
    464954, 465223, 465492, 465761, 466030, 466299, 466568, 466838, 467108, 467378, 467648, 467918,
    468188, 468459, 468729, 469000, 469271, 469542, 469814, 470085, 470357, 470628, 470900, 471172,
    471445, 471717, 471990, 472262, 472535, 472808, 473081, 473355, 473628, 473902, 474176, 474450,
    474724, 474998, 475273, 475547, 475822, 476097, 476372, 476647, 476923, 477198, 477474, 477750,
    478026, 478302, 478578, 478855, 479132, 479408, 479685, 479963, 480240, 480517, 480795, 481073,
    481351, 481629, 481907, 482186, 482464, 482743, 483022, 483301, 483580, 483860, 484139, 484419,
    484699, 484979, 485259, 485539, 485820, 486101, 486381, 486663, 486944, 487225, 487507, 487788,
    488070, 488352, 488634, 488917, 489199, 489482, 489765, 490048, 490331, 490614, 490897, 491181,
    491465, 491749, 492033, 492317, 492602, 492886, 493171, 493456, 493741, 494026, 494312, 494598,
    494883, 495169, 495455, 495742, 496028, 496315, 496601, 496888, 497175, 497463, 497750, 498038,
    498325, 498613, 498901, 499190, 499478, 499767, 500056, 500344, 500634, 500923, 501212, 501502,
    501792, 502082, 502372, 502662, 502952, 503243, 503534, 503825, 504116, 504407, 504698, 504990,
    505282, 505574, 505866, 506158, 506451, 506743, 507036, 507329, 507622, 507915, 508209, 508503,
    508796, 509090, 509384, 509679, 509973, 510268, 510563, 510858, 511153, 511448, 511744, 512039,
    512335, 512631, 512928, 513224, 513520, 513817, 514114, 514411, 514708, 515006, 515303, 515601,
    515899, 516197, 516495, 516794, 517092, 517391, 517690, 517989, 518288, 518588, 518887, 519187,
    519487, 519787, 520088, 520388, 520689, 520990, 521291, 521592, 521893, 522195, 522497, 522798,
    523101, 523403, 523705, 524008, 524311, 524613, 524917, 525220, 525523, 525827, 526131, 526435,
    526739, 527043, 527348, 527653, 527957, 528262, 528568, 528873, 529179, 529484, 529790, 530096,
    530403, 530709, 531016, 531323, 531630, 531937, 532244, 532552, 532859, 533167, 533475, 533784,
    534092, 534401, 534709, 535018, 535327, 535637, 535946, 536256, 536566, 536876, 537186, 537496,
    537807, 538118, 538429, 538740, 539051, 539362, 539674, 539986, 540298, 540610, 540922, 541235,
    541548, 541861, 542174, 542487, 542800, 543114, 543428, 543742, 544056, 544370, 544685, 544999,
    545314, 545629, 545945, 546260, 546576, 546892, 547208, 547524, 547840, 548157, 548473, 548790,
    549107, 549425, 549742, 550060, 550378, 550696, 551014, 551332, 551651, 551969, 552288, 552607,
    552927, 553246, 553566, 553886, 554206, 554526, 554846, 555167, 555488, 555809, 556130, 556451,
    556773, 557094, 557416, 557738, 558060, 558383, 558706, 559028, 559351, 559675, 559998, 560321,
    560645, 560969, 561293, 561618, 561942, 562267, 562592, 562917, 563242, 563567, 563893, 564219,
    564545, 564871, 565197, 565524, 565851, 566178, 566505, 566832, 567160, 567487, 567815, 568143,
    568472, 568800, 569129, 569457, 569787, 570116, 570445, 570775, 571105, 571434, 571765, 572095,
    572426, 572756, 573087, 573418, 573750, 574081, 574413, 574745, 575077, 575409, 575742, 576074,
    576407, 576740, 577073, 577407, 577740, 578074, 578408, 578742, 579077, 579411, 579746, 580081,
    580416, 580752, 581087, 581423, 581759, 582095, 582431, 582768, 583105, 583442, 583779, 584116,
    584453, 584791, 585129, 585467, 585805, 586144, 586483, 586821, 587160, 587500, 587839, 588179,
    588519, 588859, 589199, 589539, 589880, 590221, 590562, 590903, 591244, 591586, 591928, 592270,
    592612, 592955, 593297, 593640, 593983, 594326, 594669, 595013, 595357, 595701, 596045, 596389,
    596734, 597079, 597424, 597769, 598114, 598460, 598806, 599152, 599498, 599844, 600191, 600538,
    600885, 601232, 601579, 601927, 602275, 602623, 602971, 603319, 603668, 604017, 604366, 604715,
    605064, 605414, 605764, 606114, 606464, 606814, 607165, 607516, 607867, 608218, 608569, 608921,
    609273, 609625, 609977, 610329, 610682, 611035, 611388, 611741, 612095, 612448, 612802, 613156,
    613510, 613865, 614220, 614575, 614930, 615285, 615640, 615996, 616352, 616708, 617065, 617421,
    617778, 618135, 618492, 618849, 619207, 619565, 619923, 620281, 620639, 620998, 621357, 621716,
    622075, 622434, 622794, 623154, 623514, 623874, 624234, 624595, 624956, 625317, 625678, 626040,
    626402, 626764, 627126, 627488, 627851, 628213, 628576, 628940, 629303, 629667, 630030, 630394,
    630759, 631123, 631488, 631853, 632218, 632583, 632948, 633314, 633680, 634046, 634413, 634779,
    635146, 635513, 635880, 636247, 636615, 636983, 637351, 637719, 638088, 638456, 638825, 639194,
    639564, 639933, 640303, 640673, 641043, 641413, 641784, 642155, 642526, 642897, 643269, 643640,
    644012, 644384, 644757, 645129, 645502, 645875, 646248, 646621, 646995, 647369, 647743, 648117,
    648492, 648866, 649241, 649616, 649992, 650367, 650743, 651119, 651495, 651872, 652248, 652625,
    653002, 653380, 653757, 654135, 654513, 654891, 655269, 655648, 656027, 656406, 656785, 657165,
    657544, 657924, 658304, 658685, 659065, 659446, 659827, 660208, 660590, 660971, 661353, 661735,
    662118, 662500, 662883, 663266, 663649, 664033, 664417, 664800, 665185, 665569, 665953, 666338,
    666723, 667108, 667494, 667880, 668265, 668652, 669038, 669424, 669811, 670198, 670585, 670973,
    671361, 671749, 672137, 672525, 672914, 673302, 673691, 674081, 674470, 674860, 675250, 675640,
    676030, 676421, 676812, 677203, 677594, 677986, 678377, 678769, 679161, 679554, 679947, 680339,
    680732, 681126, 681519, 681913, 682307, 682701, 683096, 683490, 683885, 684281, 684676, 685072,
    685467, 685863, 686260, 686656, 687053, 687450, 687847, 688245, 688642, 689040, 689438, 689837,
    690235, 690634, 691033, 691432, 691832, 692231, 692631, 693032, 693432, 693833, 694234, 694635,
    695036, 695438, 695839, 696242, 696644, 697046, 697449, 697852, 698255, 698659, 699062, 699466,
    699870, 700275, 700679, 701084, 701489, 701895, 702300, 702706, 703112, 703518, 703925, 704331,
    704738, 705146, 705553, 705961, 706369, 706777, 707185, 707594, 708003, 708412, 708821, 709230,
    709640, 710050, 710461, 710871, 711282, 711693, 712104, 712515, 712927, 713339, 713751, 714164,
    714576, 714989, 715402, 715816, 716229, 716643, 717057, 717471, 717886, 718301, 718716, 719131,
    719546, 719962, 720378, 720794, 721211, 721628, 722045, 722462, 722879, 723297, 723715, 724133,
    724551, 724970, 725389, 725808, 726227, 726647, 727067, 727487, 727907, 728328, 728749, 729170,
    729591, 730013, 730434, 730856, 731279, 731701, 732124, 732547, 732970, 733394, 733817, 734241,
    734666, 735090, 735515, 735940, 736365, 736791, 737216, 737642, 738068, 738495, 738922, 739348,
    739776, 740203, 740631, 741059, 741487, 741915, 742344, 742773, 743202, 743631, 744061, 744491,
    744921, 745352, 745782, 746213, 746644, 747076, 747507, 747939, 748371, 748804, 749236, 749669,
    750103, 750536, 750970, 751403, 751838, 752272, 752707, 753142, 753577, 754012, 754448, 754884,
    755320, 755756, 756193, 756630, 757067, 757505, 757942, 758380, 758818, 759257, 759695, 760134,
    760574, 761013, 761453, 761893, 762333, 762773, 763214, 763655, 764096, 764538, 764980, 765422,
    765864, 766306, 766749, 767192, 767635, 768079, 768523, 768967, 769411, 769856, 770300, 770745,
    771191, 771636, 772082, 772528, 772975, 773421, 773868, 774315, 774763, 775210, 775658, 776106,
    776555, 777004, 777452, 777902, 778351, 778801, 779251, 779701, 780152, 780602, 781053, 781505,
    781956, 782408, 782860, 783312, 783765, 784218, 784671, 785124, 785578, 786032, 786486, 786940,
    787395, 787850, 788305, 788761, 789216, 789672, 790129, 790585, 791042, 791499, 791956, 792414,
    792872, 793330, 793788, 794247, 794706, 795165, 795625, 796084, 796544, 797004, 797465, 797926,
    798387, 798848, 799310, 799771, 800234, 800696, 801159, 801621, 802085, 802548, 803012, 803476,
    803940, 804404, 804869, 805334, 805800, 806265, 806731, 807197, 807664, 808130, 808597, 809064,
    809532, 810000, 810468, 810936, 811404, 811873, 812342, 812812, 813281, 813751, 814221, 814692,
    815163, 815634, 816105, 816576, 817048, 817520, 817993, 818465, 818938, 819411, 819885, 820358,
    820832, 821307, 821781, 822256, 822731, 823207, 823682, 824158, 824634, 825111, 825587, 826064,
    826542, 827019, 827497, 827975, 828454, 828932, 829411, 829891, 830370, 830850, 831330, 831810,
    832291, 832772, 833253, 833734, 834216, 834698, 835180, 835663, 836146, 836629, 837112, 837596,
    838080, 838564, 839049, 839533, 840018, 840504, 840989, 841475, 841962, 842448, 842935, 843422,
    843909, 844397, 844885, 845373, 845861, 846350, 846839, 847328, 847818, 848308, 848798, 849288,
    849779, 850270, 850761, 851253, 851745, 852237, 852729, 853222, 853715, 854208, 854702, 855196,
    855690, 856184, 856679, 857174, 857669, 858165, 858660, 859157, 859653, 860150, 860647, 861144,
    861641, 862139, 862637, 863136, 863635, 864134, 864633, 865132, 865632, 866132, 866633, 867134,
    867635, 868136, 868638, 869139, 869642, 870144, 870647, 871150, 871653, 872157, 872661, 873165,
    873670, 874174, 874679, 875185, 875690, 876196, 876703, 877209, 877716, 878223, 878731, 879238,
    879746
>>

\* the largest k in lo..hi with HalfCent[k + 1] * m <= f  (HalfCent[lo + 1] * m <= f)
RECURSIVE CentSearch(_, _, _, _)
CentSearch(f, m, lo, hi) ==
    IF lo = hi THEN lo
    ELSE LET mid == (lo + hi + 1) \div 2
         IN IF HalfCent[mid + 1] * m <= f THEN CentSearch(f, m, mid, hi)
            ELSE CentSearch(f, m, lo, mid - 1)

\* roundf(6900.0f + 1200.0f * (logf(freq / 440.0f) / logf(2.0f))) for freq > 0 (mHz)
RECURSIVE CentsOfHz(_, _, _)
CentsOfHz(f, m, acc) ==
    IF f < HalfCent[1] * m THEN CentsOfHz(f * 2, m, acc - 1200)
    ELSE IF f >= HalfCent[1201] * m THEN CentsOfHz(f, m * 2, acc + 1200)
    ELSE acc + CentSearch(f, m, 0, 1199)

\* uint16_t hz_to_note(float freq): the value before the cast to uint16_t
hz_to_note_f(freq) == IF freq <= 0 THEN 0 ELSE CentsOfHz(freq, 1, 6900)

\* The outcomes of static_cast<uint16_t>() in hz_to_note. Converting a negative
\* float to an unsigned type is undefined: the builds produce 0 (saturation)
\* or the two's complement wrap.
hz_to_note(freq) ==
    LET v == hz_to_note_f(freq)
    IN IF v >= 0 THEN {v % 65536} ELSE {0, v + 65536}

\* float note_to_hz(uint16_t cents), in mHz: 440 * 2^((cents - 6900) / 1200)
RECURSIVE note_to_hz(_)
note_to_hz(cents) ==
    IF cents < 6900 THEN note_to_hz(cents + 1200) \div 2
    ELSE IF cents >= 8100 THEN note_to_hz(cents - 1200) * 2
    ELSE (HalfCent[cents - 6900 + 1] + HalfCent[cents - 6900 + 2]) \div 2

\* hz_to_cents_deviation() testing the measured frequency first
hz_to_cents_deviation_measured_first(target, measured) ==
    IF measured <= 0 THEN INT16_MIN
    ELSE IF target <= 0 THEN INT16_MAX
    ELSE LET cents == CentsOfHz(measured, 1, 6900) - CentsOfHz(target, 1, 6900)
         IN IF cents >= INT16_MAX THEN INT16_MAX
            ELSE IF cents <= INT16_MIN THEN INT16_MIN
            ELSE cents

\* int16_t hz_to_cents_deviation(float target, float measured)
hz_to_cents_deviation(target, measured) ==
    IF target <= 0 THEN INT16_MAX
    ELSE IF measured <= 0 THEN INT16_MIN
    ELSE LET cents == CentsOfHz(measured, 1, 6900) - CentsOfHz(target, 1, 6900)
         IN IF cents >= INT16_MAX THEN INT16_MAX
            ELSE IF cents <= INT16_MIN THEN INT16_MIN
            ELSE cents

\* note_to_mv() with the octave counted from 0
note_to_mv_octave_0(cents) ==
    IF cents <= 1200 THEN 0
    ELSE LET octave == cents \div 1200
         IN 600 * 1000 * octave + 500 * (cents % 1200)

\* float note_to_mv(uint16_t cents), in 1/600 mV
note_to_mv(cents) ==
    IF cents <= 1200 THEN 0
    ELSE LET octave == cents \div 1200
         IN 600 * 1000 * (octave - 1) + 500 * (cents % 1200)

\* map_f() with out_min and out_max in each other's place
map_f_swapped(x, in_min, in_max, out_min, out_max) ==
    ((x - 100 * in_min) * (out_min - out_max) * 6) \div (in_max - in_min) + 600 * out_max

\* float map_f(x, in_min, in_max, out_min, out_max) with x in 1/100 (a note in
\* cents), in_min and in_max whole notes, out_min and out_max in mV; the
\* result in 1/600 mV
map_f(x, in_min, in_max, out_min, out_max) ==
    ((x - 100 * in_min) * (out_max - out_min) * 6) \div (in_max - in_min) + 600 * out_min

\* ------------------------------------------------------------------------
\* dac.cpp
\* ------------------------------------------------------------------------

\* void DAC::set(float target_1, float target_2), targets in 1/600 mV
dac_set(d, target_1, target_2) ==
    [d EXCEPT !.dac_1_target = IF target_1 = NAN THEN @
                               ELSE IF target_1 >= 0 THEN target_1 ELSE 0,
              !.dac_2_target = IF target_2 = NAN THEN @
                               ELSE IF target_2 >= 0 THEN target_2 ELSE 0]

\* float DAC::get_current_maximum(uint8_t dac), in microvolts:
\* vcc (mV) * (GAIN_x_BASE + gain_x_offset) (1/1000)
get_current_maximum(m, ch) ==
    m.dac.vcc * ((IF ch = 1 THEN GAIN_2_BASE ELSE GAIN_1_BASE)
                 + (IF ch = 1 THEN m.cal.gain_2_offset ELSE m.cal.gain_1_offset))

\* void DAC::calculate_compensation(void): the supply is measured (vcc_raw is
\* the ADC reading of the 1.1 V reference) and the raw codes are computed from
\* the targets (taken in whole millivolts) and clamped to DAC_MAX.
dac_code(target, maximum) ==
    LET v == IF maximum \div 1000 <= 0 THEN DAC_MAX
             ELSE ((target \div 600) * DAC_MAX) \div (maximum \div 1000)
    IN IF v > DAC_MAX THEN DAC_MAX ELSE v

calculate_compensation(m, vcc_raw) ==
    LET m1 == [m EXCEPT !.dac.vcc = (INTERNAL_VREF_MV * 1023) \div vcc_raw]
    IN [m1 EXCEPT !.dac.dac_1_value = dac_code(m1.dac.dac_1_target, get_current_maximum(m1, 0)),
                  !.dac.dac_2_value = dac_code(m1.dac.dac_2_target, get_current_maximum(m1, 1))]

\* void DAC::write(void): the codes computed last are shifted out to the
\* converter; out records what the converter holds and the targets it was
\* computed from.
dac_write(m) ==
    [m EXCEPT !.dac.out = [value_1 |-> m.dac.dac_1_value, value_2 |-> m.dac.dac_2_value,
                           target_1 |-> m.dac.dac_1_target, target_2 |-> m.dac.dac_2_target]]

\* inline void set_dac_cv(uint8_t channel, float mv), mv in millivolts
set_dac_cv(d, channel, mv) ==
    IF channel = 0 THEN dac_set(d, 600 * mv, 0) ELSE dac_set(d, 0, 600 * mv)

\* ------------------------------------------------------------------------
\* calibration.cpp
\* ------------------------------------------------------------------------

\* inline float dip_to_gain_offset(uint8_t dip_switch_state), in 1/1000
dip_to_gain_offset(dip_switch_state) ==
    IF dip_switch_state >= 128 THEN dip_switch_state % 128 ELSE 0 - (dip_switch_state % 128)

\* matrix->matrix[i] read. The tables are kept as functions on the indexes
\* whose cells were programmed; every other cell of the array holds the
\* erased value 65535, and so does, in the model, the word an index outside
\* the array reads.
matrix_at(matrix, i) ==
    IF i \in DOMAIN matrix.matrix THEN matrix.matrix[i] ELSE 65535

\* The stored bounds do not describe a calibration, or a sweep is being
\* prepared or running (the condition of the first return of note_to_mv_cal).
no_calibration(cal, matrix) ==
    \/ matrix.note_min > 127
    \/ matrix.note_max > 127
    \/ matrix.note_min = 0
    \/ matrix.note_min >= matrix.note_max
    \/ cal.stage \in {"PREP_VCO_1", "PREP_VCO_2", "VCO_1", "VCO_2"}

\* note_to_mv_cal(), the local note_min and note_max: the pair of notes whose
\* entries are interpolated for the query cents (note is cents / 100.f)
bracket(matrix, cents) ==
    LET note == cents \div 100
    IN IF note >= matrix.note_max
       THEN [note_min |-> (matrix.note_max - 1) % 256, note_max |-> matrix.note_max]
       ELSE IF note <= matrix.note_min
       THEN [note_min |-> matrix.note_min, note_max |-> (matrix.note_min + 1) % 256]
       ELSE [note_min |-> note, note_max |-> (note + 1) % 256]

\* note_to_mv_cal() interpolating between the entries of note_min and note_max
note_to_mv_cal_between_bounds(cal, channel, cents) ==
    IF cents < 1200 \/ cents > 12700 THEN 0
    ELSE LET matrix == IF channel # 0 THEN cal.calib_matrix_2 ELSE cal.calib_matrix_1
         IN IF no_calibration(cal, matrix) THEN note_to_mv(cents)
            ELSE map_f(cents, matrix.note_min, matrix.note_max,
                       matrix_at(matrix, (matrix.note_min - 12) % 65536),
                       matrix_at(matrix, (matrix.note_max - 12) % 65536))

\* note_to_mv_cal() without the upper limit of the range check
note_to_mv_cal_no_upper_limit(cal, channel, cents) ==
    IF cents < 1200 THEN 0
    ELSE LET matrix == IF channel # 0 THEN cal.calib_matrix_2 ELSE cal.calib_matrix_1
         IN IF no_calibration(cal, matrix) THEN note_to_mv(cents)
            ELSE LET b == bracket(matrix, cents)
                 IN map_f(cents, b.note_min, b.note_max,
                          matrix_at(matrix, (b.note_min - 12) % 65536),
                          matrix_at(matrix, (b.note_max - 12) % 65536))

\* float Calibration::note_to_mv_cal(uint8_t channel, uint16_t cents), in 1/600 mV
note_to_mv_cal(cal, channel, cents) ==
    IF cents < 1200 \/ cents > 12700 THEN 0
    ELSE LET matrix == IF channel # 0 THEN cal.calib_matrix_2 ELSE cal.calib_matrix_1
         IN IF no_calibration(cal, matrix) THEN note_to_mv(cents)
            ELSE LET b == bracket(matrix, cents)
                 IN map_f(cents, b.note_min, b.note_max,
                          matrix_at(matrix, (b.note_min - 12) % 65536),
                          matrix_at(matrix, (b.note_max - 12) % 65536))

\* the indexes of matrix->matrix[] a call of note_to_mv_cal reads
table_reads(cal, channel, cents) ==
    IF cents < 1200 \/ cents > 12700 THEN {}
    ELSE LET matrix == IF channel # 0 THEN cal.calib_matrix_2 ELSE cal.calib_matrix_1
         IN IF no_calibration(cal, matrix) THEN {}
            ELSE LET b == bracket(matrix, cents)
                 IN {(b.note_min - 12) % 65536, (b.note_max - 12) % 65536}

\* void Calibration::write_matrices(void)
write_matrices(m) ==
    [m EXCEPT !.eeprom.matrix_1 = m.cal.calib_matrix_1,
              !.eeprom.matrix_2 = m.cal.calib_matrix_2,
              !.nv = @ \cup {"matrix_1", "matrix_2"}]

\* EEPROM.write(address, value) for the two gain bytes
eeprom_write_gain(m, address, value) ==
    IF address = 0 THEN [m EXCEPT !.eeprom.gain_1 = value, !.nv = @ \cup {"gain_1"}]
    ELSE [m EXCEPT !.eeprom.gain_2 = value, !.nv = @ \cup {"gain_2"}]

\* btn_short_press() with the two reset stages left out of the cycle
btn_short_press_no_reset(m) ==
    LET stage == m.cal.stage
        next == CASE stage = "PREP_GAIN_1" -> "PREP_GAIN_2"
                  [] stage = "PREP_GAIN_2" -> "PREP_TUNER"
                  [] stage = "PREP_TUNER" -> "PREP_VCO_1"
                  [] stage = "PREP_VCO_1" -> "PREP_VCO_2"
                  [] stage = "PREP_VCO_2" -> "PREP_GAIN_1"
                  [] stage = "PREP_RESET_VCO_1" -> "PREP_RESET_VCO_2"
                  [] stage = "PREP_RESET_VCO_2" -> "PREP_GAIN_1"
                  [] stage = "DONE" -> IF m.cal.stage_last = "VCO_1" THEN "PREP_VCO_2"
                                       ELSE "PREP_RESET_VCO_1"
                  [] OTHER -> stage
    IN [m EXCEPT !.cal.stage = next, !.dac = dac_set(m.dac, 0, 0)]

\* btn_short_press() with a short press in VCO_x leaving the sweep
btn_short_press_leaving_sweep(m) ==
    LET stage == m.cal.stage
        next == CASE stage = "PREP_GAIN_1" -> "PREP_GAIN_2"
                  [] stage = "PREP_GAIN_2" -> "PREP_TUNER"
                  [] stage = "PREP_TUNER" -> "PREP_VCO_1"
                  [] stage = "PREP_VCO_1" -> "PREP_VCO_2"
                  [] stage = "PREP_VCO_2" -> "PREP_RESET_VCO_1"
                  [] stage = "PREP_RESET_VCO_1" -> "PREP_RESET_VCO_2"
                  [] stage = "PREP_RESET_VCO_2" -> "PREP_GAIN_1"
                  [] stage = "VCO_1" -> "PREP_VCO_2"
                  [] stage = "VCO_2" -> "PREP_RESET_VCO_1"
                  [] stage = "DONE" -> IF m.cal.stage_last = "VCO_1" THEN "PREP_VCO_2"
                                       ELSE "PREP_RESET_VCO_1"
                  [] OTHER -> stage
    IN [m EXCEPT !.cal.stage = next, !.dac = dac_set(m.dac, 0, 0)]

\* btn_short_press() leaving DONE for PREP_VCO_2 after either sweep
btn_short_press_done_to_vco_2(m) ==
    LET stage == m.cal.stage
        next == CASE stage = "PREP_GAIN_1" -> "PREP_GAIN_2"
                  [] stage = "PREP_GAIN_2" -> "PREP_TUNER"
                  [] stage = "PREP_TUNER" -> "PREP_VCO_1"
                  [] stage = "PREP_VCO_1" -> "PREP_VCO_2"
                  [] stage = "PREP_VCO_2" -> "PREP_RESET_VCO_1"
                  [] stage = "PREP_RESET_VCO_1" -> "PREP_RESET_VCO_2"
                  [] stage = "PREP_RESET_VCO_2" -> "PREP_GAIN_1"
                  [] stage = "DONE" -> "PREP_VCO_2"
                  [] OTHER -> stage
    IN [m EXCEPT !.cal.stage = next, !.dac = dac_set(m.dac, 0, 0)]

\* void Calibration::btn_short_press(void)
btn_short_press(m) ==
    LET stage == m.cal.stage
        next == CASE stage = "PREP_GAIN_1" -> "PREP_GAIN_2"
                  [] stage = "PREP_GAIN_2" -> "PREP_TUNER"
                  [] stage = "PREP_TUNER" -> "PREP_VCO_1"
                  [] stage = "PREP_VCO_1" -> "PREP_VCO_2"
                  [] stage = "PREP_VCO_2" -> "PREP_RESET_VCO_1"
                  [] stage = "PREP_RESET_VCO_1" -> "PREP_RESET_VCO_2"
                  [] stage = "PREP_RESET_VCO_2" -> "PREP_GAIN_1"
                  [] stage = "DONE" -> IF m.cal.stage_last = "VCO_1" THEN "PREP_VCO_2"
                                       ELSE "PREP_RESET_VCO_1"
                  [] OTHER -> stage
    IN [m EXCEPT !.cal.stage = next, !.dac = dac_set(m.dac, 0, 0)]

\* The table the two clearing statements of the PREP_RESET_VCO_x case select:
\* they test the stage against PREP_VCO_1.
reset_target(stage) == IF stage = "PREP_VCO_1" THEN 1 ELSE 2

\* btn_long_press() starting a sweep with the stored bounds left in the table
btn_long_press_keeping_bounds(m) ==
    LET stage == m.cal.stage
    IN CASE stage = "PREP_GAIN_1" ->
              [m EXCEPT !.dac = dac_set(m.dac, 600 * CALIB_DAC_TARGET_GAIN_1, 0),
                        !.cal.stage = "GAIN_1"]
         [] stage = "PREP_GAIN_2" ->
              [m EXCEPT !.dac = dac_set(m.dac, 0, 600 * CALIB_DAC_TARGET_GAIN_2),
                        !.cal.stage = "GAIN_2"]
         [] stage = "GAIN_1" ->
              LET w == eeprom_write_gain(m, 0, m.dip_states)
              IN [w EXCEPT !.dac = dac_set(w.dac, 0, 0), !.cal.stage = "PREP_GAIN_2"]
         [] stage = "GAIN_2" ->
              LET w == eeprom_write_gain(m, 1, m.dip_states)
              IN [w EXCEPT !.dac = dac_set(w.dac, 0, 0), !.cal.stage = "PREP_TUNER"]
         [] stage = "PREP_TUNER" ->
              [m EXCEPT !.cal.tuner_deviation_cents = 0, !.cal.frequency = 0,
                        !.cal.stage = "TUNER"]
         [] stage = "TUNER" ->
              [m EXCEPT !.cal.tuner_deviation_cents = 0, !.cal.stage = "PREP_VCO_1",
                        !.dac = dac_set(m.dac, 0, 0)]
         [] stage \in {"PREP_VCO_1", "PREP_VCO_2"} ->
              LET c1 == m.cal
              IN [m EXCEPT !.cal = [c1 EXCEPT !.stage = IF stage = "PREP_VCO_1" THEN "VCO_1" ELSE "VCO_2",
                                              !.stage_vco = "TUNER",
                                              !.frequency = 0,
                                              !.vco_calib_timer = 0,
                                              !.vco_calib_progress = 0]]
         [] stage \in {"PREP_RESET_VCO_1", "PREP_RESET_VCO_2"} ->
              LET c1 == IF reset_target(stage) = 1
                        THEN [m.cal EXCEPT !.calib_matrix_1.note_min = UNSET,
                                           !.calib_matrix_1.note_max = UNSET]
                        ELSE [m.cal EXCEPT !.calib_matrix_2.note_min = UNSET,
                                           !.calib_matrix_2.note_max = UNSET]
                  w == write_matrices([m EXCEPT !.cal = c1])
              IN [w EXCEPT !.cal.stage = IF stage = "PREP_RESET_VCO_1" THEN "PREP_RESET_VCO_2"
                                         ELSE "PREP_GAIN_1"]
         [] OTHER -> m

\* void Calibration::btn_long_press(void)
btn_long_press(m) ==
    LET stage == m.cal.stage
    IN CASE stage = "PREP_GAIN_1" ->
              [m EXCEPT !.dac = dac_set(m.dac, 600 * CALIB_DAC_TARGET_GAIN_1, 0),
                        !.cal.stage = "GAIN_1"]
         [] stage = "PREP_GAIN_2" ->
              [m EXCEPT !.dac = dac_set(m.dac, 0, 600 * CALIB_DAC_TARGET_GAIN_2),
                        !.cal.stage = "GAIN_2"]
         [] stage = "GAIN_1" ->
              LET w == eeprom_write_gain(m, 0, m.dip_states)
              IN [w EXCEPT !.dac = dac_set(w.dac, 0, 0), !.cal.stage = "PREP_GAIN_2"]
         [] stage = "GAIN_2" ->
              LET w == eeprom_write_gain(m, 1, m.dip_states)
              IN [w EXCEPT !.dac = dac_set(w.dac, 0, 0), !.cal.stage = "PREP_TUNER"]
         [] stage = "PREP_TUNER" ->
              [m EXCEPT !.cal.tuner_deviation_cents = 0, !.cal.frequency = 0,
                        !.cal.stage = "TUNER"]
         [] stage = "TUNER" ->
              [m EXCEPT !.cal.tuner_deviation_cents = 0, !.cal.stage = "PREP_VCO_1",
                        !.dac = dac_set(m.dac, 0, 0)]
         [] stage \in {"PREP_VCO_1", "PREP_VCO_2"} ->
              LET c1 == IF stage = "PREP_VCO_1"
                        THEN [m.cal EXCEPT !.calib_matrix_1.note_min = UNSET,
                                           !.calib_matrix_1.note_max = UNSET]
                        ELSE [m.cal EXCEPT !.calib_matrix_2.note_min = UNSET,
                                           !.calib_matrix_2.note_max = UNSET]
              IN [m EXCEPT !.cal = [c1 EXCEPT !.stage = IF stage = "PREP_VCO_1" THEN "VCO_1" ELSE "VCO_2",
                                              !.stage_vco = "TUNER",
                                              !.frequency = 0,
                                              !.vco_calib_timer = 0,
                                              !.vco_calib_progress = 0]]
         [] stage \in {"PREP_RESET_VCO_1", "PREP_RESET_VCO_2"} ->
              LET c1 == IF reset_target(stage) = 1
                        THEN [m.cal EXCEPT !.calib_matrix_1.note_min = UNSET,
                                           !.calib_matrix_1.note_max = UNSET]
                        ELSE [m.cal EXCEPT !.calib_matrix_2.note_min = UNSET,
                                           !.calib_matrix_2.note_max = UNSET]
                  w == write_matrices([m EXCEPT !.cal = c1])
              IN [w EXCEPT !.cal.stage = IF stage = "PREP_RESET_VCO_1" THEN "PREP_RESET_VCO_2"
                                         ELSE "PREP_GAIN_1"]
         [] OTHER -> m

\* btn(), "Handle millis() overflow"
btn_overflow(m, time) ==
    IF m.cal.btn_timer > time THEN [m EXCEPT !.cal.btn_timer = time] ELSE m

\* btn(), "Button just pressed"
btn_just_pressed(m, time, btn_pressed) ==
    IF btn_pressed /\ m.cal.btn_timer = 0
    THEN [m EXCEPT !.cal.btn_timer = time, !.cal.btn_handled = FALSE]
    ELSE m

\* btn(), "Button released": the debounce check and the short press
btn_released(m, time, btn_pressed) ==
    IF ~btn_pressed /\ m.cal.btn_timer # 0 /\ time - m.cal.btn_timer >= BTN_DEBOUNCE
    THEN IF ~m.cal.btn_handled
         THEN btn_short_press([m EXCEPT !.cal.btn_timer = 0, !.cal.btn_handled = TRUE,
                                        !.evt = "short"])
         ELSE [m EXCEPT !.cal.btn_timer = 0]
    ELSE m

\* btn()'s long-press check without the btn_handled flag
btn_held_unflagged(m, time, btn_pressed) ==
    IF btn_pressed /\ m.cal.btn_timer # 0 /\ time - m.cal.btn_timer >= BTN_LONG_PRESS
    THEN btn_long_press([m EXCEPT !.evt = "long"])
    ELSE m

\* btn(), "Button pressed for a long time": the long press
btn_held(m, time, btn_pressed) ==
    IF btn_pressed /\ ~m.cal.btn_handled /\ m.cal.btn_timer # 0
       /\ time - m.cal.btn_timer >= BTN_LONG_PRESS
    THEN btn_long_press([m EXCEPT !.cal.btn_handled = TRUE, !.evt = "long"])
    ELSE m

\* void Calibration::btn(void); time is millis(), btn_pressed the pin read.
\* evt records the handler called, if any.
btn(m, time, btn_pressed) ==
    The({ btn_held(m3, time, btn_pressed) :
            m3 \in { btn_released(m2, time, btn_pressed) :
                m2 \in { btn_just_pressed(m1, time, btn_pressed) :
                    m1 \in { btn_overflow(m, time) } } } })

\* void Calibration::tuner(void)
tuner(m) ==
    LET hi == m.dip_states \div 16
        lo == m.dip_states % 16
        target_octave == IF hi > 8 THEN 8 ELSE hi
        target_note == IF lo > 11 THEN 11 ELSE lo
        target_cents == (target_octave * 12 + target_note + 12) * 100
        target_frequency == note_to_hz(target_cents)
    IN [m EXCEPT !.dac = dac_set(m.dac, note_to_mv_cal(m.cal, 0, target_cents),
                                 note_to_mv_cal(m.cal, 1, target_cents)),
                 !.cal.target_frequency = target_frequency,
                 !.cal.tuner_deviation_cents =
                     hz_to_cents_deviation(target_frequency, m.cal.frequency)]

\* abs(tuner_deviation_cents) > CALIB_VCO_START_DEV_CENTS. abs() negates in
\* int, which is 16 bits wide: for INT16_MIN the negation overflows, which is
\* undefined; abs_min is the outcome of the comparison in that case.
deviation_too_large(dev, abs_min) ==
    IF dev = INT16_MIN THEN abs_min
    ELSE (IF dev > 0 THEN dev ELSE 0 - dev) > CALIB_VCO_START_DEV_CENTS

\* static_cast<int16_t>(uint16_t)
to_int16(v) == IF v >= 32768 THEN v - 65536 ELSE v

\* The "stabilized" loop accepting a sample that agrees with one entry only
is_stabilized_once(buffer, vco_cents) ==
    \E i \in 1..VCO_LAST_CENTS_STAB :
        ~ (\/ buffer[i] = 0
           \/ (LET d == to_int16(vco_cents) - to_int16(buffer[i])
               IN (IF d > 0 THEN d ELSE 0 - d) > 1))

\* The "stabilized" loop of the LINEARITY stage
is_stabilized(buffer, vco_cents) ==
    \A i \in 1..VCO_LAST_CENTS_STAB :
        ~ (\/ buffer[i] = 0
           \/ (LET d == to_int16(vco_cents) - to_int16(buffer[i])
               IN (IF d > 0 THEN d ELSE 0 - d) > 1))

\* The selected calibMatrix of the running sweep
sweep_matrix(m) == IF m.cal.stage = "VCO_1" THEN m.cal.calib_matrix_1 ELSE m.cal.calib_matrix_2
with_sweep_matrix(m, mx) ==
    IF m.cal.stage = "VCO_1" THEN [m EXCEPT !.cal.calib_matrix_1 = mx]
    ELSE [m EXCEPT !.cal.calib_matrix_2 = mx]

\* matrix->matrix[i] = v. A store outside the array is undefined; the model
\* leaves the table as it is and records the index in oob.
matrix_store(m, i, v) ==
    IF i \in 0..(MATRIX_LEN - 1)
    THEN LET mx == sweep_matrix(m)
             cells == [j \in DOMAIN mx.matrix \cup {i} |-> IF j = i THEN v ELSE mx.matrix[j]]
         IN [with_sweep_matrix(m, [mx EXCEPT !.matrix = cells]) EXCEPT !.wr = Append(@, i)]
    ELSE [m EXCEPT !.oob = @ \cup {i}, !.wr = Append(@, i)]

\* vco(), stage_vco == TUNER (the first branch)
vco_tuner(m, time, abs_min) ==
    LET timer == IF deviation_too_large(m.cal.tuner_deviation_cents, abs_min) THEN time
                 ELSE m.cal.vco_calib_timer
    IN IF timer = 0 THEN [m EXCEPT !.cal.vco_calib_timer = time]
       ELSE IF timer > time \/ time - timer > CALIB_VCO_START_DELAY_INIT
       THEN [m EXCEPT !.cal.vco_calib_timer = 0,
                      !.cal.stage_vco = "LOWER",
                      !.dac = set_dac_cv(m.dac, IF m.cal.stage = "VCO_1" THEN 0 ELSE 1,
                                         CALIB_VCO_MV_MIN),
                      !.cal.frequency = 0]
       ELSE [m EXCEPT !.cal.vco_calib_timer = timer]

\* vco_lower() without the wait
vco_lower_unwaited(m, time) ==
    LET timer == m.cal.vco_calib_timer
    IN IF timer = 0 THEN [m EXCEPT !.cal.vco_calib_timer = time]
       ELSE [m EXCEPT !.cal.vco_calib_timer = 0,
                      !.cal.vco_cents_buffer = [i \in 1..VCO_LAST_CENTS_STAB |-> 0],
                      !.cal.vco_cents_buffer_counter = 0,
                      !.cal.vco_cents_last = 0,
                      !.cal.vco_note_closest_mv = CALIB_VCO_MV_MIN,
                      !.cal.mv_current = CALIB_VCO_MV_MIN,
                      !.cal.stage_vco = "LINEARITY",
                      !.cal.address_last = UNSET]

\* vco(), stage_vco == LOWER (the second branch)
vco_lower(m, time) ==
    LET timer == m.cal.vco_calib_timer
    IN IF timer = 0 THEN [m EXCEPT !.cal.vco_calib_timer = time]
       ELSE IF timer > time \/ time - timer > CALIB_VCO_START_DELAY_LINEARITY
       THEN [m EXCEPT !.cal.vco_calib_timer = 0,
                      !.cal.vco_cents_buffer = [i \in 1..VCO_LAST_CENTS_STAB |-> 0],
                      !.cal.vco_cents_buffer_counter = 0,
                      !.cal.vco_cents_last = 0,
                      !.cal.vco_note_closest_mv = CALIB_VCO_MV_MIN,
                      !.cal.mv_current = CALIB_VCO_MV_MIN,
                      !.cal.stage_vco = "LINEARITY",
                      !.cal.address_last = UNSET]
       ELSE m

\* vco_new_note() saving the tables after every entry it stores
vco_new_note_saving(m, vco_note_last) ==
    LET address == (vco_note_last - 12) % 256
        address_last == m.cal.address_last
    IN IF address_last # UNSET
          /\ (address < address_last \/ (address - address_last) % 256 > 1)
       THEN [m EXCEPT !.cal.stage = "ERROR"]
       ELSE IF address_last = UNSET \/ address > address_last
       THEN write_matrices([matrix_store(m, address, m.cal.vco_note_closest_mv)
                               EXCEPT !.cal.address_last = address,
                                      !.cal.vco_note_closest_mv = m.cal.mv_current])
       ELSE m

\* vco(), LINEARITY, "New note -> save to matrix": the lower bound, the
\* address check and the table write. The result has stage ERROR where the
\* code returns after the address check.
vco_new_note(m, vco_note_last) ==
    LET address == (vco_note_last - 12) % 256
        address_last == m.cal.address_last
    IN IF address_last # UNSET
          /\ (address < address_last \/ (address - address_last) % 256 > 1)
       THEN [m EXCEPT !.cal.stage = "ERROR"]
       ELSE IF address_last = UNSET \/ address > address_last
       THEN [matrix_store(m, address, m.cal.vco_note_closest_mv)
                EXCEPT !.cal.address_last = address,
                       !.cal.vco_note_closest_mv = m.cal.mv_current]
       ELSE m

\* vco(), LINEARITY, "Check if we're in a valid range" up to "Out of range":
\* the closest-voltage tracking and the table write of a stabilized sample
vco_record(m, vco_cents) ==
    LET c == m.cal
        vco_note == (vco_cents \div 100) % 256
        vco_note_last == (c.vco_cents_last \div 100) % 256
    IN IF vco_cents >= 1200 /\ vco_cents <= 12700
          /\ c.vco_cents_last >= 1200 /\ c.vco_cents_last <= 12700
       THEN IF vco_note = vco_note_last /\ vco_cents % 100 < c.vco_cents_last % 100
            THEN [m EXCEPT !.cal.vco_note_closest_mv = c.mv_current]
            ELSE IF vco_note > vco_note_last
            THEN The({ vco_new_note(m2, vco_note_last) :
                        m2 \in { IF sweep_matrix(m).note_min > 127
                                 THEN with_sweep_matrix(m, [sweep_matrix(m) EXCEPT
                                                               !.note_min = vco_note_last])
                                 ELSE m } })
            ELSE m
       ELSE [m EXCEPT !.cal.vco_note_closest_mv = c.mv_current]

\* vco(), LINEARITY, "Calibration done": the final note_max write, the save and
\* the transition to DONE
vco_done(m) ==
    LET note_max == (m.cal.vco_cents_last \div 100) % 256
    IN The({ [m3 EXCEPT !.cal.vco_calib_timer = 0,
                        !.cal.stage_vco = "TUNER",
                        !.cal.stage_last = m.cal.stage,
                        !.cal.stage = "DONE",
                        !.dac = dac_set(m3.dac, 0, 0)] :
               m3 \in { write_matrices(m2) :
                   m2 \in { matrix_store(m1, (note_max - 12) % 65536, m1.cal.vco_note_closest_mv) :
                       m1 \in { with_sweep_matrix(m, [sweep_matrix(m) EXCEPT
                                                         !.note_max = note_max]) } } } })

\* vco(), LINEARITY, "Calculate progress" and "Calibration done"; vco_cents_last
\* is set at the end of the function
vco_progress(m, vco_cents) ==
    LET channel == IF m.cal.stage = "VCO_1" THEN 0 ELSE 1
        mv_end == (get_current_maximum(m, channel) * CALIB_VCO_MAX_SCALE_PCT) \div 100
        progress_1 == (vco_cents * 1000) \div 12700
        progress_2 == (m.cal.mv_current * 1000) \div (mv_end \div 1000)
    IN The({ [m3 EXCEPT !.cal.vco_cents_last = vco_cents] :
               m3 \in { IF m2.cal.mv_current * 1000 >= mv_end \/ vco_cents > 12700
                        THEN vco_done(m2) ELSE m2 :
                   m2 \in { [m EXCEPT !.cal.vco_calib_progress = Max(progress_1, progress_2)] } } })

\* vco(), LINEARITY, from "Increment and set voltage" to the end
vco_advance(m, vco_cents) ==
    LET channel == IF m.cal.stage = "VCO_1" THEN 0 ELSE 1
        mv_current == (m.cal.mv_current + 1) % 65536
    IN The({ vco_progress(m1, vco_cents) :
               m1 \in { [m EXCEPT !.cal.mv_current = mv_current,
                                  !.dac = set_dac_cv(m.dac, channel, mv_current),
                                  !.cal.vco_cents_buffer = [i \in 1..VCO_LAST_CENTS_STAB |-> 0],
                                  !.cal.vco_cents_buffer_counter = 0] } })

\* vco(), stage_vco == LINEARITY (the third branch); vco_cents is the value
\* hz_to_note(frequency) returned
vco_linearity(m, time, vco_cents) ==
    LET c == m.cal
    IN IF c.vco_calib_timer # 0 /\ c.vco_calib_timer < time
          /\ time - c.vco_calib_timer < CALIB_VCO_DELAY_BETWEEN_MV
       THEN m
       ELSE LET stabilized == is_stabilized(c.vco_cents_buffer, vco_cents)
                counter == IF c.vco_cents_buffer_counter < VCO_LAST_CENTS_STAB - 1
                           THEN c.vco_cents_buffer_counter + 1 ELSE 0
                m1 == [m EXCEPT !.cal.vco_calib_timer = IF @ = 0 THEN time ELSE @,
                                !.cal.vco_cents_buffer_counter = counter,
                                !.cal.vco_cents_buffer[counter + 1] = vco_cents]
            IN IF ~stabilized THEN m1
               ELSE The({ IF m3.cal.stage = "ERROR" THEN m3 ELSE vco_advance(m3, vco_cents) :
                            m3 \in { vco_record(m2, vco_cents) :
                                m2 \in { [m1 EXCEPT !.cal.vco_calib_timer = time] } } })

\* void Calibration::vco(void); time is millis(). ub names the outcomes of the
\* two undefined operations: abs_min (abs(INT16_MIN) > 10) and neg_cast (the
\* uint16_t a negative note converts to, "zero" or "wrap").
vco(m, time, ub) ==
    IF m.cal.stage_vco = "TUNER" THEN vco_tuner(m, time, ub.abs_min)
    ELSE IF m.cal.stage_vco = "LOWER" THEN vco_lower(m, time)
    ELSE IF m.cal.stage_vco = "LINEARITY"
    THEN The({ vco_linearity(m, time, IF v >= 0 THEN v % 65536
                                      ELSE IF ub.neg_cast = "zero" THEN 0 ELSE v + 65536) :
                 v \in { hz_to_note_f(m.cal.frequency) } })
    ELSE m

\* ------------------------------------------------------------------------
\* clock.cpp: the clock divider
\* ------------------------------------------------------------------------

CLOCK_HIGH_DURATION == 10
MIDI_CLOCK_TIMEOUT == 2000
UINT8_MAX == 255

\* the Clock object after Clock::init(); the object is static, the members
\* init() does not set are zero
InitClock ==
    [source |-> "NONE", divider |-> 0, clock_event |-> FALSE, ticks_counter |-> 0,
     midi_tick_time_last |-> 0, on_time |-> 0, clock_event_ext |-> FALSE, out |-> FALSE]

\* void Clock::set_source(enum ClockSource source)
set_source(k, source) ==
    IF source = k.source THEN k
    ELSE IF source = "MIDI"
    THEN [k EXCEPT !.out = FALSE, !.source = source, !.on_time = 0]
    ELSE IF source = "EXT"
    THEN [k EXCEPT !.ticks_counter = 0, !.clock_event = FALSE, !.source = source, !.on_time = 0]
    ELSE [k EXCEPT !.out = FALSE, !.ticks_counter = 0, !.clock_event = FALSE,
                   !.source = source, !.on_time = 0]

\* void Clock::midi_tick(void); time is millis()
midi_tick(k, time) ==
    IF k.source = "NONE" THEN k
    ELSE The({ IF k3.ticks_counter = 0 THEN [k3 EXCEPT !.clock_event = TRUE, !.out = TRUE] ELSE k3 :
                 k3 \in { [k2 EXCEPT !.ticks_counter =
                                        IF @ >= (2 ^ k2.divider) * 12 THEN 0 ELSE @] :
                     k2 \in { [k1 EXCEPT !.midi_tick_time_last = time,
                                         !.ticks_counter = IF @ < UINT8_MAX THEN @ + 1 ELSE 0] :
                         k1 \in { IF k.source = "EXT" THEN set_source(k, "MIDI") ELSE k } } } })

\* void Clock::loop(void); time is millis()
clock_loop(k, time) ==
    LET k1 == IF k.source = "EXT" /\ k.clock_event_ext
              THEN [k EXCEPT !.clock_event_ext = FALSE, !.clock_event = TRUE]
              ELSE k
    IN IF k1.source # "MIDI" THEN k1
       ELSE The({ IF k3.on_time # 0
                     /\ (k3.on_time > time \/ time - k3.on_time >= CLOCK_HIGH_DURATION)
                  THEN [k3 EXCEPT !.on_time = 0, !.out = FALSE]
                  ELSE k3 :
                    k3 \in { IF time - k1.midi_tick_time_last > MIDI_CLOCK_TIMEOUT
                             THEN set_source([k1 EXCEPT !.midi_tick_time_last = 0], "EXT")
                             ELSE k1 } })

\* clock.divider = (dip_switch.states & 0b00110000U) >> 4U
divider_of(states) == (states \div 16) % 4

\* The clock in one iteration of loop() in performance mode: midi.loop(),
\* which calls midi_tick() if a timing clock message has arrived (tick),
\* clock.loop(), the divider read from the switches, and clock_event cleared
\* at the end. The result is the Clock object and the clock_event the
\* iteration has shown to the modes (event).
clock_iteration(k, states, time, tick) ==
    The({ [clock |-> [k2 EXCEPT !.divider = divider_of(states), !.clock_event = FALSE],
           event |-> k2.clock_event] :
            k2 \in { clock_loop(k1, time) :
                k1 \in { IF tick THEN midi_tick(k, time) ELSE k } } })

\* ------------------------------------------------------------------------
\* Bounds of the explored environment
\* ------------------------------------------------------------------------
\* the clock stops after MaxTime steps of GridUs, the button is held for at
\* most MaxHold of them
MaxTime == 9
MaxHold == 1
\* the same for the steps of FineUs
MaxFineTime == 26
MaxFineHold == 13
\* the sweep voltage is followed up to MaxMv millivolts
MaxMv == 14

\* The clock advances in steps of GridUs, or of FineUs; the program starts
\* BootUs after the reset (the delays of setup()).
GridUs == 3000 * 1000
FineUs == 100 * 1000
BootUs == 40 * 1000
\* periods of the oscillator signal, in microseconds: 127, 120 and 113 are
\* 11894, 11992 and 12096 cents (the notes 118, 119, 120), 79 is 12716 cents
PeriodsUs == {79, 113, 120, 127}
\* positions of the eight DIP switches: octave 8 note 11 (11900 cents), which
\* reads as the gain offset +0.011
DipValues == {139}
\* the ADC reading of the 1.1 V reference (a 5 V supply)
VccRawValues == {225}

\* ------------------------------------------------------------------------
\* calibration.cpp: the main loop and the interrupt handler
\* ------------------------------------------------------------------------

\* The values the filtered frequency takes in the model: no signal and the
\* frequencies of the periods of the signal.
FrequencyGrid == {0} \cup {1000000000 \div p : p \in PeriodsUs}

\* frequency * CALIB_VCO_FREQ_FILTER_K + _frequency_raw * (1.f - CALIB_VCO_FREQ_FILTER_K)
\* The sum is computed exactly and stored with the precision of the model: it
\* is rounded, towards the sample, to the next of the grid values and the
\* sample itself.
filter(frequency, frequency_raw) ==
    LET x == frequency + ((frequency_raw - frequency) * FILTER_NEW_PERMILLE) \div 1000
        S == FrequencyGrid \cup {frequency_raw}
        below == {s \in S : s <= x}
        above == {s \in S : s >= x}
    IN IF frequency_raw >= frequency
       THEN CHOOSE s \in above : \A t \in above : s <= t
       ELSE CHOOSE s \in below : \A t \in below : t <= s

\* micros() counts microseconds in 32 bits and wraps to 0 every 2^32 us
\* (4294967 ms and 296 us). A value of the counter is kept as the 32-bit
\* integer of the same bits: the values of the upper half, those before a
\* wrap, are negative. a < b for two such values as the unsigned numbers the
\* code compares:
unsigned_less(a, b) == IF (a < 0) = (b < 0) THEN a < b ELSE b < 0

MICROS_WRAP_MS == 4294967
MICROS_WRAP_REST_US == 296

\* micros() and millis() at the time t of the environment, which micros()
\* has wrapped `wraps` times at the time origin
micros(t, wraps, origin) == t - origin
millis(t, wraps, origin) ==
    wraps * MICROS_WRAP_MS + (t - origin + wraps * MICROS_WRAP_REST_US) \div 1000

\* time - _time_last > 2000000UL, an unsigned 64-bit subtraction of two values
\* of micros(): below zero it wraps to a number near 2^64
signal_lost(time, time_last) ==
    IF unsigned_less(time, time_last) THEN TRUE
    ELSE IF time < 0 /\ time_last >= 0 THEN TRUE
    ELSE time - time_last > SIGNAL_TIMEOUT_US

\* loop(), "Gain calibration -> read offset from DIP switch"
loop_gain(m) ==
    IF m.cal.stage = "GAIN_1"
    THEN [m EXCEPT !.cal.gain_1_offset = dip_to_gain_offset(m.dip_states)]
    ELSE IF m.cal.stage = "GAIN_2"
    THEN [m EXCEPT !.cal.gain_2_offset = dip_to_gain_offset(m.dip_states)]
    ELSE m

\* loop(), "Check if it still measured", frequency being the filtered value:
\* the result has stage ERROR where the code returns
loop_check(m, now, frequency) ==
    IF frequency > 0 /\ signal_lost(now, m.cal.time_last)
    THEN [m EXCEPT !.cal.frequency = 0, !.cal.frequency_raw = 0,
                   !.cal.stage = IF @ \in {"VCO_1", "VCO_2"} /\ m.cal.stage_vco = "LINEARITY"
                                 THEN "ERROR" ELSE @]
    ELSE [m EXCEPT !.cal.frequency = frequency]

\* loop(), "Filter VCO's frequency" and "Check if it still measured"
loop_measure(m, now) ==
    The({ loop_check(m, now, frequency) :
            frequency \in { IF m.cal.frequency <= 1000 THEN m.cal.frequency_raw
                            ELSE filter(m.cal.frequency, m.cal.frequency_raw) } })

\* loop_stages() with the tuner running in PREP_VCO_1 as well
loop_stages_tuner_after_exit(m, now, nd) ==
    The({ IF m1.cal.stage \in {"VCO_1", "VCO_2"} THEN vco(m1, now.ms, nd) ELSE m1 :
            m1 \in { IF \/ m.cal.stage \in {"TUNER", "PREP_VCO_1"}
                        \/ m.cal.stage \in {"VCO_1", "VCO_2"} /\ m.cal.stage_vco = "TUNER"
                     THEN tuner(m) ELSE m } })

\* loop(), "Tuner" and "VCO calibration"
loop_stages(m, now, nd) ==
    The({ IF m1.cal.stage \in {"VCO_1", "VCO_2"} THEN vco(m1, now.ms, nd) ELSE m1 :
            m1 \in { IF \/ m.cal.stage = "TUNER"
                        \/ m.cal.stage \in {"VCO_1", "VCO_2"} /\ m.cal.stage_vco = "TUNER"
                     THEN tuner(m) ELSE m } })

\* loop() without the return of an inactive session
calibration_loop_when_inactive(m, now, btn_pressed, nd) ==
    IF m.cal.stage = "ERROR" THEN [m EXCEPT !.dac = dac_set(m.dac, 0, 0)]
    ELSE The({ IF m3.cal.stage = "ERROR" THEN m3 ELSE loop_stages(m3, now, nd) :
                 m3 \in { loop_measure(m2, now.us) :
                     m2 \in { loop_gain(m1) :
                         m1 \in { btn(m, now.ms, btn_pressed) } } } })

\* loop() without the zeroing of the outputs in ERROR
calibration_loop_error_unzeroed(m, now, btn_pressed, nd) ==
    IF ~m.cal.active \/ m.cal.stage = "ERROR" THEN m
    ELSE The({ IF m3.cal.stage = "ERROR" THEN m3 ELSE loop_stages(m3, now, nd) :
                 m3 \in { loop_measure(m2, now.us) :
                     m2 \in { loop_gain(m1) :
                         m1 \in { btn(m, now.ms, btn_pressed) } } } })

\* void Calibration::loop(void); now is the clock (us what micros() returns,
\* ms what millis() returns), btn_pressed the pin read, nd the outcomes of
\* the undefined operations (abs_min, neg_cast).
calibration_loop(m, now, btn_pressed, nd) ==
    IF ~m.cal.active THEN m
    ELSE IF m.cal.stage = "ERROR" THEN [m EXCEPT !.dac = dac_set(m.dac, 0, 0)]
    ELSE The({ IF m3.cal.stage = "ERROR" THEN m3 ELSE loop_stages(m3, now, nd) :
                 m3 \in { loop_measure(m2, now.us) :
                     m2 \in { loop_gain(m1) :
                         m1 \in { btn(m, now.ms, btn_pressed) } } } })

\* void Calibration::handle_interrupt(void); time is micros()
handle_interrupt(c, time) ==
    IF c.time_last = 0 \/ ~unsigned_less(c.time_last, time) THEN [c EXCEPT !.time_last = time]
    ELSE [c EXCEPT !.frequency_raw = IF time < 0 /\ c.time_last >= 0 THEN 0
                                     ELSE 1000000000 \div (time - c.time_last),
                   !.time_last = time]

\* ------------------------------------------------------------------------
\* State
\* ------------------------------------------------------------------------
VARIABLES
    cal,          \* the Calibration object
    dac,          \* the DAC object and what the converter holds (out)
    eeprom,       \* the non-volatile memory
    dip_switch,   \* the DipSwitch object
    hw,           \* the clock (now, in microseconds; micros() has wrapped
                  \* `wraps` times at the time origin), the button pin, the
                  \* switches and the oscillator (edge_at the time of its last
                  \* edge where the edges are followed one by one), the
                  \* course of the current press of the button, and of a sweep
                  \* in LINEARITY the stabilized sample closest to its note
                  \* from above among those of the current note (best)
    perf,         \* the notes of the performance path (target_cents_1,
                  \* target_cents_2 of main.cpp and midi.pitch_bend) and the
                  \* table indexes its last conversion read (rd)
    clock,        \* the Clock object, and of the last iteration of loop() in
                  \* performance mode the clock_event it has shown (event), the
                  \* MIDI ticks counted since the last event (since) and
                  \* between the last two events (gap)
    cpu,          \* the processor while loop() runs step by step: the global
                  \* interrupt flag (i), the flag an ATOMIC_BLOCK has saved
                  \* (sreg), a falling edge waiting to be served (intf), where
                  \* Calibration::loop() stands (pc: "idle", in the block that
                  \* reads frequency_raw "raw", reads time_last "last", clears
                  \* frequency_raw "zero", or before the stages "stages"), the
                  \* bytes transferred in the block (n) and the local variable
                  \* the last reading block fills (acc)
    obs           \* what the last iteration of the main loop did: the button
                  \* handler called (evt), the EEPROM blocks written (nv), the
                  \* table indexes stored to (wr, in order; oob those outside it)

vars == <<cal, dac, eeprom, dip_switch, hw, perf, clock, cpu, obs>>

\* an erased calibMatrix and a stored calibration of the notes lo .. lo + 2
ErasedMatrix == [note_min |-> UNSET, note_max |-> UNSET, matrix |-> <<>>]
StoredMatrix(lo, mv) ==
    [note_min |-> lo, note_max |-> lo + 2,
     matrix |-> [i \in (lo - 12)..(lo - 10) |-> mv + 85 * (i - (lo - 12))]]

\* contents of the EEPROM at power-up: never written, and a calibrated device
InitEeproms ==
    { [gain_1 |-> 255, gain_2 |-> 255, matrix_1 |-> ErasedMatrix, matrix_2 |-> ErasedMatrix],
      [gain_1 |-> 133, gain_2 |-> 5, matrix_1 |-> StoredMatrix(48, 3010),
       matrix_2 |-> StoredMatrix(60, 4020)] }

\* the Calibration object before init_check(): a static object, all zero
\* (the two tables are loaded by init_check() before any use)
ZeroCal ==
    [active |-> FALSE, stage |-> "NONE", stage_vco |-> "NONE", stage_last |-> "NONE",
     btn_timer |-> 0, btn_handled |-> FALSE,
     gain_1_offset |-> 0, gain_2_offset |-> 0,
     frequency |-> 0, frequency_raw |-> 0, time_last |-> 0, target_frequency |-> 0,
     tuner_deviation_cents |-> 0,
     vco_calib_timer |-> 0, vco_calib_progress |-> 0,
     vco_cents_buffer |-> [i \in 1..VCO_LAST_CENTS_STAB |-> 0],
     vco_cents_buffer_counter |-> 0, vco_cents_last |-> 0,
     vco_note_closest_mv |-> 0, mv_current |-> 0, address_last |-> 0,
     calib_matrix_1 |-> ErasedMatrix, calib_matrix_2 |-> ErasedMatrix]

\* init_check() without "Ignore startup button press"
init_check_press_pending(e, btn_pressed) ==
    LET c == [ZeroCal EXCEPT !.gain_1_offset = dip_to_gain_offset(e.gain_1),
                             !.gain_2_offset = dip_to_gain_offset(e.gain_2),
                             !.calib_matrix_1 = e.matrix_1,
                             !.calib_matrix_2 = e.matrix_2,
                             !.active = btn_pressed]
    IN IF ~btn_pressed THEN c
       ELSE [c EXCEPT !.stage = "PREP_GAIN_1"]

\* void Calibration::init_check(void); e is the EEPROM, btn_pressed the pin read
init_check(e, btn_pressed) ==
    LET c == [ZeroCal EXCEPT !.gain_1_offset = dip_to_gain_offset(e.gain_1),
                             !.gain_2_offset = dip_to_gain_offset(e.gain_2),
                             !.calib_matrix_1 = e.matrix_1,
                             !.calib_matrix_2 = e.matrix_2,
                             !.active = btn_pressed]
    IN IF ~btn_pressed THEN c
       ELSE [c EXCEPT !.btn_handled = TRUE, !.btn_timer = 1, !.stage = "PREP_GAIN_1"]

\* no stabilized sample yet
NoBest == [cents |-> 0, mv |-> 0]

\* loop() not running, interrupts enabled, no edge pending
IdleCpu == [pc |-> "idle", i |-> TRUE, sreg |-> TRUE, intf |-> FALSE, n |-> 0, acc |-> 0]

NoObs == [evt |-> "none", nv |-> {}, wr |-> <<>>, oob |-> {}]

\* the DAC object after dac.init(): the supply measured, zero codes written
ZeroDac(vcc_raw) ==
    [dac_1_target |-> 0, dac_2_target |-> 0, dac_1_value |-> 0, dac_2_value |-> 0,
     vcc |-> (INTERNAL_VREF_MV * 1023) \div vcc_raw,
     out |-> [value_1 |-> 0, value_2 |-> 0, target_1 |-> 0, target_2 |-> 0]]

\* The state at the end of setup(): dac.init() has measured the supply and
\* written zero codes, init_check() has loaded the EEPROM and sampled the
\* button, and a start in performance mode has set the two start notes.
Boot(eeproms, dips) ==
    \E e \in eeproms, held \in BOOLEAN, vcc_raw \in VccRawValues, d \in dips :
        LET c == init_check(e, held)
            d0 == ZeroDac(vcc_raw)
        IN /\ cal = c
           /\ dac = IF held THEN d0
                    ELSE dac_set(d0, note_to_mv_cal(c, 0, NOTE_START_1_CENTS),
                                 note_to_mv_cal(c, 1, NOTE_START_2_CENTS))
           /\ eeprom = e
           /\ dip_switch = [states |-> 0]
           /\ hw = [now |-> BootUs, wraps |-> 0, origin |-> 0, btn_pin |-> held, dip |-> d, polled |-> TRUE,
                   held |-> 0, held_ms |-> 0, elapsed_ms |-> 0, fired |-> "none",
                   eligible |-> FALSE, period |-> 0, off |-> FALSE, cv |-> <<0, 0>>,
                   edge_at |-> 0, best |-> NoBest]
           /\ perf = IF held THEN [target_cents_1 |-> 0, target_cents_2 |-> 0, pitch_bend |-> 0,
                                    rd |-> {}]
                     ELSE [target_cents_1 |-> NOTE_START_1_CENTS,
                           target_cents_2 |-> NOTE_START_2_CENTS, pitch_bend |-> 0,
                           rd |-> table_reads(c, 0, NOTE_START_1_CENTS)
                                    \cup table_reads(c, 1, NOTE_START_2_CENTS)]
           /\ clock = [object |-> IF held THEN InitClock ELSE set_source(InitClock, "EXT"),
                       event |-> FALSE, since |-> 0, gap |-> 0]
           /\ cpu = IdleCpu
           /\ obs = NoObs

Init == Boot(InitEeproms, DipValues)

\* ------------------------------------------------------------------------
\* Actions
\* ------------------------------------------------------------------------

\* the outcomes an iteration of the main loop started in c leaves open:
\* abs_min is read in the first stage of a sweep (which a long press can enter
\* in the same iteration), neg_cast in the third
Outcomes(c) ==
    [abs_min : IF c.stage \in {"PREP_VCO_1", "PREP_VCO_2", "VCO_1", "VCO_2"}
               THEN BOOLEAN ELSE {FALSE},
     neg_cast : IF c.stage_vco = "LINEARITY" THEN {"zero", "wrap"} ELSE {"zero"}]

\* the control voltages the converter puts out
ControlVoltage == <<dac.out.target_1, dac.out.target_2>>

\* micros() and millis() now
Now == [us |-> micros(hw.now, hw.wraps, hw.origin), ms |-> millis(hw.now, hw.wraps, hw.origin)]

\* The clock variable after an iteration of loop() in performance mode, in
\* which a timing clock message has arrived or not (tick)
Clocked(tick) ==
    LET r == clock_iteration(clock.object, hw.dip, Now.ms, tick)
        since == IF tick THEN clock.since + 1 ELSE clock.since
    IN [object |-> r.clock, event |-> r.event,
        since |-> IF r.event \/ r.clock.source # "MIDI" THEN 0 ELSE since,
        gap |-> IF r.event THEN since ELSE IF r.clock.source # "MIDI" THEN 0 ELSE clock.gap]

\* The best sample of the current note after an iteration of the main loop
\* that leads from the Calibration object c to d: a stabilized sample (the
\* voltage has been raised) of another note, or with a smaller rest above its
\* note, replaces it; outside LINEARITY there is none.
BestAfter(best, c, d) ==
    IF ~(d.stage \in {"VCO_1", "VCO_2"} /\ d.stage_vco = "LINEARITY") THEN NoBest
    ELSE IF ~(c.stage_vco = "LINEARITY" /\ d.mv_current = c.mv_current + 1) THEN best
    ELSE IF \/ best = NoBest
            \/ d.vco_cents_last \div 100 # best.cents \div 100
            \/ d.vco_cents_last % 100 < best.cents % 100
    THEN [cents |-> d.vco_cents_last, mv |-> c.mv_current]
    ELSE best

\* The program at the start of an iteration of loop(): dip_switch.read() has
\* sampled the switches, nothing is recorded yet
Machine ==
    [cal |-> cal, dac |-> dac, eeprom |-> eeprom, dip_states |-> hw.dip,
     evt |-> "none", nv |-> {}, wr |-> <<>>, oob |-> {}]

\* One iteration of loop() in main.cpp with the device in calibration mode or
\* idle: dip_switch.read(), calibration.loop(), dac.calculate_compensation(),
\* dac.write(). The record of the last press is dropped once the program has
\* done with it and the button is up.
MainLoop ==
    \E vcc_raw \in VccRawValues, nd \in Outcomes(cal) :
      \E m0 \in {Machine} :
        \E m1 \in {calibration_loop(m0, Now, hw.btn_pin, nd)} :
          \E m2 \in {dac_write(m3) : m3 \in {calculate_compensation(m1, vcc_raw)}} :
           /\ m2.cal.mv_current <= MaxMv
           /\ cal' = m2.cal
           /\ dac' = m2.dac
           /\ eeprom' = m2.eeprom
           /\ dip_switch' = [states |-> m2.dip_states]
           /\ perf' = perf
           /\ clock' = IF cal.active THEN clock ELSE Clocked(FALSE)
           /\ cpu' = cpu
           /\ obs' = [evt |-> m2.evt, nv |-> m2.nv, wr |-> m2.wr, oob |-> m2.oob]
           /\ hw' = IF ~hw.btn_pin /\ (cal.btn_timer = 0 \/ ~cal.active \/ cal.stage = "ERROR")
                    THEN [hw EXCEPT !.polled = TRUE, !.cv = ControlVoltage,
                                    !.best = BestAfter(@, cal, m2.cal),
                                    !.held = 0, !.held_ms = 0, !.elapsed_ms = 0,
                                    !.fired = "none", !.eligible = FALSE]
                    ELSE [hw EXCEPT !.polled = TRUE, !.cv = ControlVoltage,
                                    !.best = BestAfter(@, cal, m2.cal),
                                    !.fired = IF m2.evt = "none" THEN @
                                              ELSE IF @ = "none" THEN m2.evt ELSE "many"]

\* The interrupt is attached in calibration mode only; the oscillator is
\* connected for the sweeps.
Listening == cal.active /\ cal.stage \in {"VCO_1", "VCO_2"}

\* isr() for two consecutive falling edges of a signal of period p, the
\* second one at the time now
edges(c, p, now) == handle_interrupt(handle_interrupt(c, now - p), now)

\* The oscillator signal has the period p: isr() has run for two consecutive
\* falling edges, the second one now. The period changes only when the
\* control voltage has just changed (hw.cv is the voltage before the last
\* iteration of the main loop) or the oscillator has just been connected.
HandleInterrupt ==
    \E p \in PeriodsUs :
        /\ Listening
        /\ ~hw.off
        /\ p = hw.period \/ hw.period = 0 \/ hw.cv # ControlVoltage
        /\ cal' = edges(cal, p, Now.us)
        /\ hw' = [hw EXCEPT !.period = p]
        /\ UNCHANGED <<dac, eeprom, dip_switch, perf, clock, cpu, obs>>

\* The oscillator signal stops, for good
SignalOff ==
    /\ Listening
    /\ hw.period # 0
    /\ ~hw.off
    /\ hw' = [hw EXCEPT !.off = TRUE]
    /\ UNCHANGED <<cal, dac, eeprom, dip_switch, perf, clock, cpu, obs>>

\* The user acts after the main loop, which runs every few hundred
\* microseconds, has seen the last change.
UserTurn == hw.polled

\* The user pushes the button. hw follows the press: the time it has been
\* held (held in clock steps, held_ms up to BTN_LONG_PRESS), the time since it
\* began (elapsed_ms, up to BTN_DEBOUNCE), the handlers called for it (fired)
\* and whether it began with the button polled and no earlier press pending
\* (eligible).
Press ==
    /\ UserTurn
    /\ ~hw.btn_pin
    /\ hw' = [hw EXCEPT !.btn_pin = TRUE, !.polled = FALSE, !.held = 0, !.held_ms = 0,
                        !.elapsed_ms = 0, !.fired = "none",
                        !.eligible = cal.active /\ cal.stage # "ERROR" /\ cal.btn_timer = 0]
    /\ UNCHANGED <<cal, dac, eeprom, dip_switch, perf, clock, cpu, obs>>

\* The user releases the button
Release ==
    /\ UserTurn
    /\ hw.btn_pin
    /\ hw' = [hw EXCEPT !.btn_pin = FALSE, !.polled = FALSE]
    /\ UNCHANGED <<cal, dac, eeprom, dip_switch, perf, clock, cpu, obs>>

\* Time passes to the next multiple of step, for max_time steps at most, the
\* button held for max_hold steps at most; the edges of a running oscillator
\* keep arriving.
Tick(step, max_time, max_hold) ==
    LET now == (hw.now \div step + 1) * step
        ms == (now - hw.now) \div 1000
    IN /\ hw.polled
       /\ hw.now \div step < max_time
       /\ hw.btn_pin => hw.held < max_hold
       /\ hw' = [hw EXCEPT !.now = now,
                           !.polled = FALSE,
                           !.held = IF hw.btn_pin THEN @ + 1 ELSE @,
                           !.held_ms = IF ~hw.btn_pin THEN @
                                       ELSE IF @ + ms > BTN_LONG_PRESS THEN BTN_LONG_PRESS ELSE @ + ms,
                           !.elapsed_ms = IF @ + ms > BTN_DEBOUNCE THEN BTN_DEBOUNCE ELSE @ + ms]
       /\ cal' = IF Listening /\ hw.period # 0 /\ ~hw.off THEN edges(cal, hw.period, micros(now, hw.wraps, hw.origin))
                 ELSE cal
       /\ UNCHANGED <<dac, eeprom, dip_switch, perf, clock, cpu, obs>>

TickGrid == Tick(GridUs, MaxTime, MaxHold)

TickFine == Tick(FineUs, MaxFineTime, MaxFineHold)

\* The device and its user, no oscillator connected
Next ==
    \/ MainLoop
    \/ Press
    \/ Release
    \/ TickGrid

Spec == Init /\ [][Next]_vars

\* The same on the fine clock
NextBtn ==
    \/ MainLoop
    \/ Press
    \/ Release
    \/ TickFine

SpecBtn == Init /\ [][NextBtn]_vars

\* A calibrated device started in calibration mode, its user calibrating the
\* oscillators: the button is held over a grid point only to start a sweep or
\* while one runs or has ended.
InitSweep == Init /\ hw.btn_pin /\ eeprom.matrix_1.note_min # UNSET

SweepTick ==
    /\ hw.btn_pin /\ hw.now # BootUs
           => cal.stage \in {"PREP_VCO_1", "PREP_VCO_2", "VCO_1", "VCO_2", "DONE", "ERROR"}
    /\ TickGrid

NextSweep ==
    \/ MainLoop
    \/ HandleInterrupt
    \/ SignalOff
    \/ Press
    \/ Release
    \/ SweepTick

SpecSweep == InitSweep /\ [][NextSweep]_vars

\* ------------------------------------------------------------------------
\* main.cpp: the performance path
\* ------------------------------------------------------------------------

\* void write_to_channel(boolean channel_1, boolean channel_2): the DAC object
\* d with the new targets and the table indexes read (rd); c is the
\* Calibration object, p the notes. The queries are
\* static_cast<uint16_t>(target_cents_x + midi.pitch_bend).
write_to_channel(c, d, p, channel_1, channel_2) ==
    LET cents_1 == (p.target_cents_1 + p.pitch_bend) % 65536
        cents_2 == (p.target_cents_2 + p.pitch_bend) % 65536
    IN IF channel_1 /\ channel_2
       THEN [dac |-> dac_set(d, note_to_mv_cal(c, 0, cents_1), note_to_mv_cal(c, 1, cents_2)),
             rd |-> table_reads(c, 0, cents_1) \cup table_reads(c, 1, cents_2)]
       ELSE IF channel_1
       THEN [dac |-> dac_set(d, note_to_mv_cal(c, 0, cents_1), NAN),
             rd |-> table_reads(c, 0, cents_1)]
       ELSE [dac |-> dac_set(d, NAN, note_to_mv_cal(c, 1, cents_2)),
             rd |-> table_reads(c, 1, cents_2)]

\* MIDI notes and pitch bends (in cents, (value - 8192) / 41) that arrive
MidiNotes == {0, 12, 47, 50, 51, 60, 127}
PitchBends == {0 - 150, 0, 50}

\* The end of an iteration of loop() in performance mode, in which a timing
\* clock message has arrived or not (tick), after the notes p and the targets
\* and reads w of write_to_channel():
\* dac.calculate_compensation(), dac.write()
Performed(p, w, tick) ==
    \E vcc_raw \in VccRawValues :
      \E m2 \in {dac_write(m1) : m1 \in {calculate_compensation([Machine EXCEPT !.dac = w.dac],
                                                                vcc_raw)}} :
        /\ dac' = m2.dac
        /\ perf' = [p EXCEPT !.rd = w.rd]
        /\ dip_switch' = [states |-> hw.dip]
        /\ hw' = [hw EXCEPT !.polled = TRUE, !.cv = ControlVoltage]
        /\ clock' = Clocked(tick)
        /\ obs' = NoObs
        /\ UNCHANGED <<cal, eeprom, cpu>>

\* An iteration of loop() in performance mode in which a note-on event is
\* pending for a channel in direct mode (direct_channel_mode()): the note
\* becomes the target of the channel and is written to it.
NoteOn ==
    \E channel \in {0, 1}, note \in MidiNotes :
      \E p \in {IF channel = 0 THEN [perf EXCEPT !.target_cents_1 = note * 100]
                ELSE [perf EXCEPT !.target_cents_2 = note * 100]} :
        /\ ~cal.active
        /\ hw.dip % 16 = 0     \* no arpeggiator, no split: both channels direct
        /\ Performed(p, write_to_channel(cal, dac, p, channel = 0, channel = 1), FALSE)

\* An iteration of loop() in performance mode in which a pitch bend event is
\* pending and no note event: both channels are written again.
PitchBend ==
    \E bend \in PitchBends :
      \E p \in {[perf EXCEPT !.pitch_bend = bend]} :
        /\ ~cal.active
        /\ Performed(p, write_to_channel(cal, dac, p, TRUE, TRUE), FALSE)

\* a calibration of the notes lo..hi whose entries rise by step from mv
LinearMatrix(lo, hi, mv, step) ==
    [note_min |-> lo, note_max |-> hi,
     matrix |-> [i \in (lo - 12)..(hi - 12) |-> mv + step * (i - (lo - 12))]]

\* Tables the EEPROM can hold for channel 1: none, calibrations of a few and
\* of many notes, at the two ends of the range, with equal neighbours, with
\* the two end entries only, and bounds that are not a range of notes (over
\* the cells of a calibration)
StoredTables ==
    { ErasedMatrix,
      StoredMatrix(48, 3010),
      LinearMatrix(48, 72, 2500, 125),
      [note_min |-> 48, note_max |-> 72, matrix |-> (36 :> 2500) @@ (60 :> 5500)],
      [note_min |-> 12, note_max |-> 14, matrix |-> (0 :> 0) @@ (1 :> 0) @@ (2 :> 90)],
      [note_min |-> 125, note_max |-> 127,
       matrix |-> (113 :> 9400) @@ (114 :> 9500) @@ (115 :> 9500)] }
    \cup { [LinearMatrix(48, 72, 2500, 125) EXCEPT !.note_min = b[1], !.note_max = b[2]] :
             b \in { <<0, 50>>, <<5, 10>>, <<11, 12>>, <<5, 50>>, <<60, 60>>, <<62, 60>>,
                     <<48, 200>>, <<255, 50>>, <<48, 255>>, <<128, 130>> } }

NoteEeproms ==
    { [gain_1 |-> 133, gain_2 |-> 5, matrix_1 |-> t1, matrix_2 |-> t2] :
        t1 \in StoredTables, t2 \in {StoredMatrix(60, 4020)} }

\* The device started in performance mode, all switches off, with any of
\* these tables stored
InitNote == Boot(NoteEeproms, {0}) /\ ~cal.active

NextNote ==
    \/ NoteOn
    \/ PitchBend

SpecNote == InitNote /\ [][NextNote]_vars

\* positions the user moves the switches to: 139, and 11 (the gain offset
\* -0.011)
SwitchValues == DipValues \cup {11}

\* The user moves the DIP switches, at any time: the next dip_switch.read()
\* sees the new positions.
FlipSwitch ==
    \E d \in SwitchValues \ {hw.dip} :
        /\ hw' = [hw EXCEPT !.dip = d]
        /\ UNCHANGED <<cal, dac, eeprom, dip_switch, perf, clock, cpu, obs>>

\* The device and its user, who also moves the switches
NextGain ==
    \/ MainLoop
    \/ Press
    \/ Release
    \/ TickGrid
    \/ FlipSwitch

SpecGain == Init /\ [][NextGain]_vars

\* the clock of the two-channel session stops after MaxBothTime steps of GridUs
MaxBothTime == 10

\* The user of a session that calibrates either oscillator: the button is
\* pressed in the preparation stages and in DONE only, and held over a grid
\* point only to start a sweep or in DONE.
BothPress ==
    /\ cal.stage \in PrepStages \cup {"DONE"}
    /\ Press

BothTick ==
    /\ hw.btn_pin /\ hw.now # BootUs => cal.stage \in {"PREP_VCO_1", "PREP_VCO_2", "DONE"}
    /\ Tick(GridUs, MaxBothTime, MaxHold)

NextBoth ==
    \/ MainLoop
    \/ HandleInterrupt
    \/ BothPress
    \/ Release
    \/ BothTick

SpecBoth == InitSweep /\ [][NextBoth]_vars

\* The user of a session that stores what it calibrates: the button is
\* pressed in the preparation stages, in GAIN_1 and in DONE, and held over a
\* grid point only to enter or confirm the gain calibration of channel 1, to
\* start a sweep, to confirm a reset or in DONE.
StorePress ==
    /\ cal.stage \in PrepStages \cup {"GAIN_1", "DONE"}
    /\ Press

StoreTick ==
    /\ hw.btn_pin /\ hw.now # BootUs
           => cal.stage \in {"PREP_GAIN_1", "GAIN_1", "PREP_VCO_1", "PREP_VCO_2",
                             "PREP_RESET_VCO_1", "PREP_RESET_VCO_2", "DONE"}
    /\ Tick(GridUs, MaxBothTime, MaxHold)

NextStore ==
    \/ MainLoop
    \/ HandleInterrupt
    \/ SignalOff
    \/ StorePress
    \/ Release
    \/ StoreTick

SpecStore == InitSweep /\ [][NextStore]_vars

\* micros() wraps WrapLeadsUs after the start; the clock then advances in
\* steps of WrapStepUs, and to the edges of the oscillator, up to MaxWrapUs
WrapLeadsUs == {90, 200}
WrapStepUs == 40
MaxWrapUs == 480

\* The tuner 2^32 us (71.6 minutes) after power-up less the lead: the session
\* was started with the button held, two short presses and a long one have
\* led to TUNER, the button is up, and the oscillator, of period p, is being
\* measured; the last edge has just arrived and loop() has run.
InitWrap ==
    \E e \in InitEeproms, p \in PeriodsUs, lead \in WrapLeadsUs,
       vcc_raw \in VccRawValues, d \in DipValues :
      \E m0 \in {[cal |-> init_check(e, TRUE), dac |-> ZeroDac(vcc_raw), eeprom |-> e,
                  dip_states |-> d, evt |-> "none", nv |-> {}, wr |-> <<>>, oob |-> {}]} :
        \E m1 \in {btn_long_press(btn_short_press(btn_short_press(m0)))} :
          \E c \in {edges([m1.cal EXCEPT !.btn_timer = 0], p, micros(0, 1, lead))} :
            \E m2 \in {calibration_loop([m1 EXCEPT !.cal = c],
                                        [us |-> micros(0, 1, lead), ms |-> millis(0, 1, lead)],
                                        FALSE, [abs_min |-> FALSE, neg_cast |-> "zero"])} :
              \E m3 \in {dac_write(calculate_compensation(m2, vcc_raw))} :
                /\ cal = m3.cal
                /\ dac = m3.dac
                /\ eeprom = e
                /\ dip_switch = [states |-> d]
                /\ hw = [now |-> 0, wraps |-> 1, origin |-> lead, btn_pin |-> FALSE, dip |-> d,
                         polled |-> TRUE, held |-> 0, held_ms |-> 0, elapsed_ms |-> 0,
                         fired |-> "none", eligible |-> FALSE, period |-> p, off |-> FALSE,
                         cv |-> <<m3.dac.out.target_1, m3.dac.out.target_2>>, edge_at |-> 0,
                         best |-> NoBest]
                /\ perf = [target_cents_1 |-> 0, target_cents_2 |-> 0, pitch_bend |-> 0, rd |-> {}]
                /\ clock = [object |-> InitClock, event |-> FALSE, since |-> 0, gap |-> 0]
                /\ cpu = IdleCpu
                /\ obs = NoObs

\* Time passes: by WrapStepUs, or to the next edge of the oscillator if that
\* comes first
WrapStep ==
    LET due == hw.edge_at + hw.period
        now == IF hw.now + WrapStepUs < due THEN hw.now + WrapStepUs ELSE due
    IN /\ hw.now < MaxWrapUs
       /\ hw.now < due
       /\ hw' = [hw EXCEPT !.now = now, !.polled = FALSE]
       /\ UNCHANGED <<cal, dac, eeprom, dip_switch, perf, clock, cpu, obs>>

\* isr() for the falling edge that is due now
WrapEdge ==
    /\ hw.now = hw.edge_at + hw.period
    /\ cal' = handle_interrupt(cal, Now.us)
    /\ hw' = [hw EXCEPT !.edge_at = hw.now]
    /\ UNCHANGED <<dac, eeprom, dip_switch, perf, clock, cpu, obs>>

\* The tuner while micros() wraps
NextWrap ==
    \/ MainLoop
    \/ WrapStep
    \/ WrapEdge

SpecWrap == InitWrap /\ [][NextWrap]_vars

\* positions of the switches with the four settings of the clock divider
\* (MSB 32, LSB 16), the others off
ClockDips == {0, 16, 32, 48}
\* MIDI timing clock messages arrive MidiTickUs apart (125 beats per minute),
\* or stop for MidiPauseUs; the clock is followed up to MaxClockUs
MidiTickUs == 20000
MidiPauseUs == 2100000
MaxClockUs == 4500000

\* The device started in performance mode
InitClockMode == Boot(InitEeproms, ClockDips) /\ ~cal.active

\* Time passes to the next timing clock message
ClockPass ==
    /\ hw.polled
    /\ hw.now + MidiTickUs <= MaxClockUs
    /\ hw' = [hw EXCEPT !.now = @ + MidiTickUs, !.polled = FALSE]
    /\ UNCHANGED <<cal, dac, eeprom, dip_switch, perf, clock, cpu, obs>>

\* The MIDI clock stops for MidiPauseUs
ClockPause ==
    /\ hw.polled
    /\ hw.now + MidiPauseUs <= MaxClockUs
    /\ hw' = [hw EXCEPT !.now = @ + MidiPauseUs, !.polled = FALSE]
    /\ UNCHANGED <<cal, dac, eeprom, dip_switch, perf, clock, cpu, obs>>

\* An iteration of loop() in performance mode in which midi.loop() receives
\* the timing clock message and no other event
MidiTick ==
    /\ ~cal.active
    /\ ~hw.polled
    /\ Performed(perf, [dac |-> dac, rd |-> perf.rd], TRUE)

\* An iteration of loop() in performance mode with the MIDI clock stopped
ClockIdle ==
    /\ ~hw.polled
    /\ Now.ms - clock.object.midi_tick_time_last > MIDI_CLOCK_TIMEOUT
    /\ MainLoop

\* The device in performance mode and a MIDI clock
NextClock ==
    \/ ClockIdle
    \/ MidiTick
    \/ ClockPass
    \/ ClockPause

SpecClock == InitClockMode /\ [][NextClock]_vars

\* periods of an oscillator signal with noise within one note, in
\* microseconds: 126, 125 and 124 are 11908, 11921 and 11935 cents (note 119)
NoisyPeriodsUs == {124, 125, 126}

\* isr() for two consecutive falling edges of the noisy signal
NoisyInterrupt ==
    \E p \in NoisyPeriodsUs :
        /\ Listening
        /\ ~hw.off
        /\ p = hw.period \/ hw.period = 0 \/ hw.cv # ControlVoltage
        /\ cal' = edges(cal, p, Now.us)
        /\ hw' = [hw EXCEPT !.period = p]
        /\ UNCHANGED <<dac, eeprom, dip_switch, perf, clock, cpu, obs>>

NextNoisy ==
    \/ MainLoop
    \/ NoisyInterrupt
    \/ BothPress
    \/ Release
    \/ BothTick

SpecNoisy == InitSweep /\ [][NextNoisy]_vars

\* frequencies, in mHz, hz_to_cents_deviation() is called with: negative, zero,
\* 0.001 Hz to 1 MHz
DeviationHz == {-440000, -1, 0, 1, 5, 1000, 440000, 466164, 7902128, 12658227, 1000000000}

\* A calibration session with a target and a measured frequency
\* hz_to_cents_deviation() has not been called for
InitDeviation ==
    \E target \in DeviationHz, measured \in DeviationHz :
        /\ cal = [init_check(CHOOSE e \in InitEeproms : e.matrix_1.note_min = UNSET, TRUE)
                      EXCEPT !.target_frequency = target, !.frequency = measured]
        /\ dac = ZeroDac(CHOOSE v \in VccRawValues : TRUE)
        /\ eeprom = CHOOSE e \in InitEeproms : e.matrix_1.note_min = UNSET
        /\ dip_switch = [states |-> 0]
        /\ hw = [now |-> BootUs, wraps |-> 0, origin |-> 0, btn_pin |-> TRUE,
                 dip |-> CHOOSE d \in DipValues : TRUE, polled |-> TRUE,
                 held |-> 0, held_ms |-> 0, elapsed_ms |-> 0, fired |-> "none",
                 eligible |-> FALSE, period |-> 0, off |-> FALSE, cv |-> <<0, 0>>,
                 edge_at |-> 0, best |-> NoBest]
        /\ perf = [target_cents_1 |-> 0, target_cents_2 |-> 0, pitch_bend |-> 0, rd |-> {}]
        /\ clock = [object |-> InitClock, event |-> FALSE, since |-> 0, gap |-> 0]
        /\ cpu = IdleCpu
        /\ obs = NoObs

\* tuner_deviation_cents = hz_to_cents_deviation(target_frequency, frequency)
Deviate ==
    /\ cal' = [cal EXCEPT !.tuner_deviation_cents =
                              hz_to_cents_deviation(cal.target_frequency, cal.frequency)]
    /\ UNCHANGED <<dac, eeprom, dip_switch, hw, perf, clock, cpu, obs>>

\* another frequency is measured
Remeasure ==
    \E measured \in DeviationHz :
        /\ cal' = [cal EXCEPT !.frequency = measured]
        /\ UNCHANGED <<dac, eeprom, dip_switch, hw, perf, clock, cpu, obs>>

NextDeviation == Deviate \/ Remeasure

SpecDeviation == InitDeviation /\ [][NextDeviation]_vars

\* The button held at power-up stays down for as long as the user likes, up
\* to the end of the fine clock, and is not pressed again once released
InitHold == Init /\ hw.btn_pin

HoldTick == Tick(FineUs, MaxFineTime, MaxFineTime)

NextHold ==
    \/ MainLoop
    \/ Release
    \/ HoldTick

SpecHold == InitHold /\ [][NextHold]_vars

\* the iterations of loop() followed PulseStepUs apart up to MaxPulseUs, each
\* with or without a timing clock message
PulseStepUs == 5000
MaxPulseUs == 140000

PulsePass ==
    /\ hw.polled
    /\ hw.now + PulseStepUs <= MaxPulseUs
    /\ hw' = [hw EXCEPT !.now = @ + PulseStepUs, !.polled = FALSE]
    /\ UNCHANGED <<cal, dac, eeprom, dip_switch, perf, clock, cpu, obs>>

\* An iteration of loop() in performance mode without a MIDI message
PulseLoop ==
    /\ ~cal.active
    /\ ~hw.polled
    /\ MainLoop

NextPulse ==
    \/ MidiTick
    \/ PulseLoop
    \/ PulsePass

SpecPulse == InitClockMode /\ [][NextPulse]_vars

\* ------------------------------------------------------------------------
\* Calibration::loop() step by step against the edge interrupt
\* ------------------------------------------------------------------------

\* the bytes of a value the handler and the loop share (a float and the
\* micros() value in time_last, 4 significant bytes each)
SHARED_BYTES == 4

\* times between two steps, in microseconds
AtomicStepsUs == {300000, 2100000}
MaxAtomicUs == 2800000

\* the part of v its byte n holds (n = 0 the lowest; the highest carries the sign)
byte_at(v, n) ==
    IF n = SHARED_BYTES - 1 THEN (v \div (256 ^ n)) * (256 ^ n)
    ELSE ((v \div (256 ^ n)) % 256) * (256 ^ n)

\* a block that saves the flag but leaves the interrupts enabled
atomic_block_open(p, pc) ==
    [p EXCEPT !.pc = pc, !.sreg = p.i, !.n = 0]

\* ATOMIC_BLOCK(ATOMIC_RESTORESTATE) { at the block pc: the status register is
\* saved and the interrupts are disabled
atomic_block(p, pc) ==
    [p EXCEPT !.pc = pc, !.sreg = p.i, !.i = FALSE, !.n = 0]

\* } of an ATOMIC_BLOCK(ATOMIC_RESTORESTATE): the saved status register is
\* restored; loop() goes on at pc
atomic_restore(p, pc) == [p EXCEPT !.pc = pc, !.i = p.sreg]

\* the variable the block loop() is in reads
shared_value(c, pc) == IF pc = "raw" THEN c.frequency_raw ELSE c.time_last

\* The state at the end of setup() with the button held: a calibration
\* session, the interrupt attached
InitAtomic == Boot(InitEeproms, DipValues) /\ cal.active

\* the program inside an iteration of loop()
Running ==
    [cal |-> cal, dac |-> dac, eeprom |-> eeprom, dip_states |-> dip_switch.states,
     evt |-> obs.evt, nv |-> obs.nv, wr |-> obs.wr, oob |-> obs.oob]

\* dip_switch.read() and Calibration::loop() up to the block that reads
\* frequency_raw: btn() and the gain offsets
LoopEnter ==
    /\ cpu.pc = "idle"
    /\ cal.active
    /\ cal.stage # "ERROR"
    /\ \E m2 \in { loop_gain(m1) : m1 \in { btn(Machine, Now.ms, hw.btn_pin) } } :
        /\ cal' = m2.cal
        /\ dac' = m2.dac
        /\ eeprom' = m2.eeprom
        /\ dip_switch' = [states |-> m2.dip_states]
        /\ obs' = [evt |-> m2.evt, nv |-> m2.nv, wr |-> m2.wr, oob |-> m2.oob]
    /\ cpu' = atomic_block([cpu EXCEPT !.acc = 0], "raw")
    /\ UNCHANGED <<hw, perf, clock>>

\* _frequency_raw = frequency_raw; and _time_last = time_last; one byte
LoadByte ==
    /\ cpu.pc \in {"raw", "last"}
    /\ cpu.n < SHARED_BYTES
    /\ cpu' = [cpu EXCEPT !.acc = @ + byte_at(shared_value(cal, cpu.pc), cpu.n), !.n = @ + 1]
    /\ UNCHANGED <<cal, dac, eeprom, dip_switch, hw, perf, clock, obs>>

\* The end of the block that reads frequency_raw, "Filter VCO's frequency",
\* and with a frequency the start of the block that reads time_last
RawDone ==
    /\ cpu.pc = "raw"
    /\ cpu.n = SHARED_BYTES
    /\ \E frequency \in { IF cal.frequency <= 1000 THEN cpu.acc
                          ELSE filter(cal.frequency, cpu.acc) } :
        /\ cal' = [cal EXCEPT !.frequency = frequency]
        /\ \E p \in { atomic_restore(cpu, "stages") } :
             cpu' = IF frequency > 0 THEN atomic_block([p EXCEPT !.acc = 0], "last") ELSE p
    /\ UNCHANGED <<dac, eeprom, dip_switch, hw, perf, clock, obs>>

\* The end of the block that reads time_last, micros() and the test of the
\* timeout; with the signal lost, frequency = 0.f and the start of the block
\* that clears frequency_raw (_time_last stays in acc)
LastDone ==
    /\ cpu.pc = "last"
    /\ cpu.n = SHARED_BYTES
    /\ \E p \in { atomic_restore(cpu, "stages") } :
         IF signal_lost(Now.us, cpu.acc)
         THEN /\ cal' = [cal EXCEPT !.frequency = 0]
              /\ cpu' = atomic_block(p, "zero")
         ELSE /\ cal' = cal
              /\ cpu' = p
    /\ UNCHANGED <<dac, eeprom, dip_switch, hw, perf, clock, obs>>

\* frequency_raw = 0.f; one byte
StoreByte ==
    /\ cpu.pc = "zero"
    /\ cpu.n < SHARED_BYTES
    /\ cal' = [cal EXCEPT !.frequency_raw = @ - byte_at(@, cpu.n)]
    /\ cpu' = [cpu EXCEPT !.n = @ + 1]
    /\ UNCHANGED <<dac, eeprom, dip_switch, hw, perf, clock, obs>>

\* The end of the block that clears frequency_raw; a sweep in LINEARITY goes
\* to ERROR and loop() returns
ZeroDone ==
    /\ cpu.pc = "zero"
    /\ cpu.n = SHARED_BYTES
    /\ cal' = [cal EXCEPT !.stage = IF @ \in {"VCO_1", "VCO_2"} /\ cal.stage_vco = "LINEARITY"
                                    THEN "ERROR" ELSE @]
    /\ cpu' = atomic_restore(cpu, "stages")
    /\ UNCHANGED <<dac, eeprom, dip_switch, hw, perf, clock, obs>>

\* The rest of loop(), "Tuner" and "VCO calibration", then
\* dac.calculate_compensation() and dac.write() of the main loop
LoopStages ==
    /\ cpu.pc = "stages"
    /\ \E vcc_raw \in VccRawValues, nd \in Outcomes(cal) :
         \E m1 \in { IF cal.stage = "ERROR" THEN Running ELSE loop_stages(Running, Now, nd) } :
           \E m2 \in { dac_write(m3) : m3 \in { calculate_compensation(m1, vcc_raw) } } :
             /\ cal' = m2.cal
             /\ dac' = m2.dac
             /\ eeprom' = m2.eeprom
             /\ obs' = [evt |-> m2.evt, nv |-> m2.nv, wr |-> m2.wr, oob |-> m2.oob]
    /\ cpu' = [cpu EXCEPT !.pc = "idle"]
    /\ hw' = [hw EXCEPT !.polled = TRUE]
    /\ UNCHANGED <<dip_switch, perf, clock>>

\* A falling edge of the oscillator signal: the interrupt is requested
Edge ==
    /\ ~cpu.intf
    /\ cpu' = [cpu EXCEPT !.intf = TRUE]
    /\ UNCHANGED <<cal, dac, eeprom, dip_switch, hw, perf, clock, obs>>

\* isr() runs once the interrupts are enabled
Isr ==
    /\ cpu.intf
    /\ cpu.i
    /\ cal' = handle_interrupt(cal, Now.us)
    /\ cpu' = [cpu EXCEPT !.intf = FALSE]
    /\ UNCHANGED <<dac, eeprom, dip_switch, hw, perf, clock, obs>>

\* Time passes between two iterations of loop(), which takes microseconds
AtomicPass ==
    \E d \in AtomicStepsUs :
        /\ cpu.pc = "idle"
        /\ hw.now + d <= MaxAtomicUs
        /\ hw' = [hw EXCEPT !.now = @ + d, !.polled = FALSE]
        /\ UNCHANGED <<cal, dac, eeprom, dip_switch, perf, clock, cpu, obs>>

NextAtomic ==
    \/ LoopEnter \/ LoadByte \/ RawDone \/ LastDone \/ StoreByte \/ ZeroDone \/ LoopStages
    \/ Edge \/ Isr \/ AtomicPass

SpecAtomic == InitAtomic /\ [][NextAtomic]_vars
\* ------------------------------------------------------------------------
\* midi.cpp: the notes of the two channels
\* ------------------------------------------------------------------------

\* notes below NOTE_MIN are ignored
NOTE_MIN == 12

\* The MIDI object; it is static, so its members start at zero.
\* notes_enabled_x is the set of the notes whose bit is set in
\* notes_enabled_x.msb (notes 64..127) or notes_enabled_x.lsb (notes 0..63).
MidiObject ==
    [omni |-> FALSE, notes_enabled_1 |-> {}, notes_enabled_2 |-> {},
     notes_pressed_n_1 |-> 0, notes_pressed_n_2 |-> 0,
     note_1 |-> 0, note_2 |-> 0, note_last |-> 0,
     note_1_event_on |-> FALSE, note_2_event_on |-> FALSE,
     note_1_event_off |-> FALSE, note_2_event_off |-> FALSE,
     panic_1_event |-> FALSE, panic_2_event |-> FALSE]

\* void MIDI::set_note(uint8_t channel, uint8_t note, boolean state)
set_note(md, channel, note, state) ==
    IF channel # 0
    THEN [md EXCEPT !.notes_enabled_2 = IF state THEN @ \cup {note} ELSE @ \ {note}]
    ELSE [md EXCEPT !.notes_enabled_1 = IF state THEN @ \cup {note} ELSE @ \ {note}]

\* boolean MIDI::is_note_enabled(uint8_t channel, uint8_t note)
is_note_enabled(md, channel, note) ==
    note \in (IF channel # 0 THEN md.notes_enabled_2 ELSE md.notes_enabled_1)

\* void MIDI::panic(uint8_t channel)
panic(md, channel) ==
    IF channel > 1
    THEN [md EXCEPT !.notes_enabled_1 = {}, !.notes_enabled_2 = {},
                    !.notes_pressed_n_1 = 0, !.notes_pressed_n_2 = 0,
                    !.note_1_event_off = TRUE, !.note_2_event_off = TRUE]
    ELSE IF channel # 0
    THEN [md EXCEPT !.notes_enabled_2 = {}, !.notes_pressed_n_2 = 0, !.note_2_event_off = TRUE]
    ELSE [md EXCEPT !.notes_enabled_1 = {}, !.notes_pressed_n_1 = 0, !.note_1_event_off = TRUE]

\* MIDI::loop(), "Save event": the note set or cleared and the events raised
save_event(md, channel, note, on) ==
    IF md.omni
    THEN IF on
         THEN [set_note(set_note(md, 0, note, on), 1, note, on)
                  EXCEPT !.note_1_event_on = TRUE, !.note_2_event_on = TRUE]
         ELSE [set_note(set_note(md, 0, note, on), 1, note, on)
                  EXCEPT !.note_1_event_off = TRUE, !.note_2_event_off = TRUE]
    ELSE IF on
         THEN IF channel # 0 THEN [set_note(md, channel, note, on) EXCEPT !.note_2_event_on = TRUE]
              ELSE [set_note(md, channel, note, on) EXCEPT !.note_1_event_on = TRUE]
         ELSE IF channel # 0 THEN [set_note(md, channel, note, on) EXCEPT !.note_2_event_off = TRUE]
              ELSE [set_note(md, channel, note, on) EXCEPT !.note_1_event_off = TRUE]

\* MIDI::loop(), "Count number of pressed notes"
count_pressed(md, channel, on) ==
    IF channel # 0
    THEN IF on /\ md.notes_pressed_n_2 < UINT8_MAX
         THEN [md EXCEPT !.notes_pressed_n_2 = @ + 1]
         ELSE IF ~on /\ md.notes_pressed_n_2 > 0
         THEN [md EXCEPT !.notes_pressed_n_2 = @ - 1]
         ELSE md
    ELSE IF on /\ md.notes_pressed_n_1 < UINT8_MAX
         THEN [md EXCEPT !.notes_pressed_n_1 = @ + 1]
         ELSE IF ~on /\ md.notes_pressed_n_1 > 0
         THEN [md EXCEPT !.notes_pressed_n_1 = @ - 1]
         ELSE md

\* MIDI::loop(), "Save note number"
save_note(md, channel, note) ==
    IF md.omni THEN [md EXCEPT !.note_1 = note, !.note_2 = note, !.note_last = note]
    ELSE IF channel # 0 THEN [md EXCEPT !.note_2 = note, !.note_last = note]
    ELSE [md EXCEPT !.note_1 = note, !.note_last = note]

\* void MIDI::loop(void) with a complete channel voice message of 3 bytes
\* in the parser: msg.status is its type, msg.channel the low 4 bits of its
\* first byte, msg.data its second and third byte. (Pitch bends are the
\* action PitchBend.)
midi_loop(md, msg) ==
    IF ~md.omni /\ msg.channel > 1 THEN md
    ELSE IF msg.status \in {"noteOn", "noteOff"}
    THEN IF msg.data[1] % 128 < NOTE_MIN THEN md
         ELSE IF msg.status = "noteOff" /\ ~is_note_enabled(md, msg.channel, msg.data[1] % 128)
         THEN md
         ELSE save_note(count_pressed(save_event(md, msg.channel, msg.data[1] % 128,
                                                 msg.status = "noteOn"),
                                      msg.channel, msg.status = "noteOn"),
                        msg.channel, msg.data[1] % 128)
    ELSE IF msg.status = "controlChange" /\ msg.data[1] \in {120, 123} /\ msg.data[2] = 0
    THEN IF md.omni THEN [md EXCEPT !.panic_1_event = TRUE, !.panic_2_event = TRUE]
         ELSE IF msg.channel # 0 THEN [md EXCEPT !.panic_2_event = TRUE]
         ELSE [md EXCEPT !.panic_1_event = TRUE]
    ELSE md

\* loop() of main.cpp after midi.loop() and clock.loop(): midi.omni is taken
\* from the switches read (states), and "Handle MIDI panic event"
handle_panic(md, states) ==
    LET m0 == [md EXCEPT !.omni = (states \div 128) % 2 = 1]
        m1 == IF m0.panic_1_event THEN [panic(m0, 0) EXCEPT !.panic_1_event = FALSE] ELSE m0
    IN IF m1.panic_2_event THEN [panic(m1, 1) EXCEPT !.panic_2_event = FALSE] ELSE m1

\* void direct_channel_mode(uint8_t channel) on s, the DAC object (dac), the
\* table indexes read (rd) and the notes with the MIDI object (p); c is the
\* Calibration object.
direct_channel_mode(c, s, channel) ==
    LET md == s.p.midi
        event_on == IF channel # 0 THEN md.note_2_event_on ELSE md.note_1_event_on
        event_off == IF channel # 0 THEN md.note_2_event_off ELSE md.note_1_event_off
        p1 == IF ~event_on THEN s.p
              ELSE IF channel # 0 THEN [s.p EXCEPT !.target_cents_2 = md.note_2 * 100]
              ELSE [s.p EXCEPT !.target_cents_1 = md.note_1 * 100]
        w == IF event_on THEN write_to_channel(c, s.dac, p1, channel = 0, channel # 0)
             ELSE [dac |-> s.dac, rd |-> s.rd]
    IN IF ~event_on /\ ~event_off THEN s
       ELSE [dac |-> w.dac, rd |-> w.rd,
             p |-> [p1 EXCEPT !.midi = IF channel # 0
                                       THEN [md EXCEPT !.note_2_event_on = FALSE,
                                                       !.note_2_event_off = FALSE]
                                       ELSE [md EXCEPT !.note_1_event_on = FALSE,
                                                       !.note_1_event_off = FALSE]]]

\* positions of the switches with both channels in direct mode: omni off, on
MidiDips == {0, 128}

\* The messages that arrive: on the MIDI channels 1 to 3, note-on and note-off
\* of a note below NOTE_MIN and of one note of each half of the range, and
\* the control changes all sound off, all notes off, all sound off with a
\* value, and volume
MidiMessages ==
    { [status |-> s, channel |-> ch, data |-> <<k, 100>>] :
         s \in {"noteOn", "noteOff"}, ch \in {0, 1, 2}, k \in {5, 60, 64} }
    \cup { [status |-> "controlChange", channel |-> ch, data |-> d] :
             ch \in {0, 1, 2}, d \in {<<120, 0>>, <<123, 0>>, <<120, 1>>, <<7, 0>>} }

\* note-on messages arrive for a channel while its counter is below
MaxPressed == 3

\* The device started in performance mode with a stored calibration, the
\* switches in a position of MidiDips, and no MIDI message received
InitMidi ==
    \E d \in MidiDips :
        /\ eeprom = CHOOSE e \in InitEeproms : e.matrix_1.note_min # UNSET
        /\ cal = init_check(eeprom, FALSE)
        /\ dac = dac_set(ZeroDac(CHOOSE v \in VccRawValues : TRUE),
                         note_to_mv_cal(cal, 0, NOTE_START_1_CENTS),
                         note_to_mv_cal(cal, 1, NOTE_START_2_CENTS))
        /\ dip_switch = [states |-> 0]
        /\ hw = [now |-> BootUs, wraps |-> 0, origin |-> 0, btn_pin |-> FALSE, dip |-> d,
                 polled |-> TRUE, held |-> 0, held_ms |-> 0, elapsed_ms |-> 0, fired |-> "none",
                 eligible |-> FALSE, period |-> 0, off |-> FALSE, cv |-> <<0, 0>>,
                 edge_at |-> 0, best |-> NoBest]
        /\ perf = [target_cents_1 |-> NOTE_START_1_CENTS, target_cents_2 |-> NOTE_START_2_CENTS,
                   pitch_bend |-> 0,
                   rd |-> table_reads(cal, 0, NOTE_START_1_CENTS)
                            \cup table_reads(cal, 1, NOTE_START_2_CENTS),
                   midi |-> MidiObject]
        /\ clock = [object |-> set_source(InitClock, "EXT"), event |-> FALSE, since |-> 0,
                    gap |-> 0]
        /\ cpu = IdleCpu
        /\ obs = NoObs

\* An iteration of loop() in performance mode, both channels in direct mode,
\* in which midi.loop() completes the channel voice message msg
Received(msg) ==
    \E m1 \in {handle_panic(midi_loop(perf.midi, msg), hw.dip)} :
      \E s1 \in {direct_channel_mode(cal, [dac |-> dac, rd |-> perf.rd,
                                           p |-> [perf EXCEPT !.midi = m1]], 0)} :
        \E s2 \in {direct_channel_mode(cal, s1, 1)} :
          /\ ~cal.active
          /\ hw.dip % 16 = 0
          /\ Performed(s2.p, [dac |-> s2.dac, rd |-> s2.rd], FALSE)

\* a note-on or note-off message arrives
NoteMessage ==
    \E msg \in MidiMessages :
        /\ msg.status \in {"noteOn", "noteOff"}
        /\ msg.status = "noteOn" =>
               (IF msg.channel # 0 THEN perf.midi.notes_pressed_n_2
                ELSE perf.midi.notes_pressed_n_1) < MaxPressed
        /\ Received(msg)

\* a control change message arrives
ControlMessage ==
    \E msg \in MidiMessages :
        /\ msg.status = "controlChange"
        /\ Received(msg)

\* the user moves the omni switch
OmniSwitch ==
    \E d \in MidiDips \ {hw.dip} :
        /\ hw' = [hw EXCEPT !.dip = d]
        /\ UNCHANGED <<cal, dac, eeprom, dip_switch, perf, clock, cpu, obs>>

NextMidi ==
    \/ NoteMessage
    \/ ControlMessage
    \/ OmniSwitch

SpecMidi == InitMidi /\ [][NextMidi]_vars


\* ------------------------------------------------------------------------
\* Properties of the button handlers
\* ------------------------------------------------------------------------

\* what the next call of Calibration::loop() makes of the current state
Polls == {calibration_loop(Machine, Now, hw.btn_pin, nd) : nd \in Outcomes(cal)}

\* what the next call of Calibration::btn() makes of the current state
Polled == btn(Machine, Now.ms, hw.btn_pin)

\* btn() is called: the session is active and not in ERROR
BtnRuns == cal.active /\ cal.stage # "ERROR"

\* the table of channel x of the Calibration object c
TableOf(c, x) == IF x = 1 THEN c.calib_matrix_1 ELSE c.calib_matrix_2

\* notes (in cents) at which the conversion is compared with the direct formula
ProbeCents == {1200, 4800, 4850, 6000, 6150, 12700}

\* C1: a long press while the stage is PREP_RESET_VCO_x sets the bounds
\* note_min and note_max of the table of channel x to 255, writes both tables
\* to the EEPROM and moves the stage on (PREP_RESET_VCO_1 -> PREP_RESET_VCO_2,
\* PREP_RESET_VCO_2 -> PREP_GAIN_1); after it note_to_mv_cal for channel x
\* gives the values of the direct formula note_to_mv.
C1_LongPressResetsChannel ==
    \A m \in Polls : \A x \in {1, 2} :
        (m.evt = "long" /\ cal.stage = (IF x = 1 THEN "PREP_RESET_VCO_1" ELSE "PREP_RESET_VCO_2"))
        => /\ TableOf(m.cal, x).note_min = UNSET
           /\ TableOf(m.cal, x).note_max = UNSET
           /\ m.nv = {"matrix_1", "matrix_2"}
           /\ m.eeprom.matrix_1 = m.cal.calib_matrix_1
           /\ m.eeprom.matrix_2 = m.cal.calib_matrix_2
           /\ m.cal.stage = (IF x = 1 THEN "PREP_RESET_VCO_2" ELSE "PREP_GAIN_1")
           /\ \A cents \in ProbeCents : note_to_mv_cal(m.cal, x - 1, cents) = note_to_mv(cents)

\* the fixed cycle of the seven preparation stages
StageCycle ==
    <<"PREP_GAIN_1", "PREP_GAIN_2", "PREP_TUNER", "PREP_VCO_1", "PREP_VCO_2",
      "PREP_RESET_VCO_1", "PREP_RESET_VCO_2">>

CycleNext(stage) ==
    LET i == CHOOSE k \in 1..Len(StageCycle) : StageCycle[k] = stage
    IN StageCycle[(i % Len(StageCycle)) + 1]

\* the stages n short presses in a row lead through, the last one first
RECURSIVE ShortPresses(_, _)
ShortPresses(m, n) ==
    IF n = 0 THEN <<m.cal.stage>>
    ELSE LET rest == ShortPresses(m, n - 1)
             at == [m EXCEPT !.cal.stage = rest[1]]
         IN <<btn_short_press(at).cal.stage>> \o rest

\* C2: in every PREP_* stage a short press moves the stage to the next one of
\* the cycle PREP_GAIN_1 -> PREP_GAIN_2 -> PREP_TUNER -> PREP_VCO_1 ->
\* PREP_VCO_2 -> PREP_RESET_VCO_1 -> PREP_RESET_VCO_2 -> PREP_GAIN_1; seven
\* short presses in a row lead back to the stage they started from, through
\* PREP_* stages only.
C2_ShortPressCycle ==
    cal.stage \in PrepStages
    => /\ \A m \in Polls : m.evt = "short" => m.cal.stage = CycleNext(cal.stage)
       /\ LET path == ShortPresses(Machine, Len(StageCycle))
          IN /\ path[1] = cal.stage
             /\ \A k \in 1..Len(path) : path[k] \in PrepStages
             /\ \A k \in 1..(Len(path) - 1) : path[k] = CycleNext(path[k + 1])

\* seven short presses have been handled since the start-up, the last of them
\* in PREP_RESET_VCO_2
C2_Witness ==
    /\ obs.evt = "short"
    /\ cal.stage = "PREP_GAIN_1"
    /\ hw.now >= 8 * GridUs

\* C3: a short press while the stage is GAIN_1, GAIN_2, TUNER, VCO_1 or VCO_2
\* is ignored: the stage, the sub-stage of the sweep, the two tables, the
\* sweep voltage and the two DAC targets are after btn() has handled it what
\* they were before.
C3_ShortPressIgnored ==
    (BtnRuns /\ Polled.evt = "short" /\ cal.stage \in {"GAIN_1", "GAIN_2", "TUNER", "VCO_1", "VCO_2"})
    => /\ Polled.cal.stage = cal.stage
       /\ Polled.cal.stage_vco = cal.stage_vco
       /\ Polled.cal.calib_matrix_1 = cal.calib_matrix_1
       /\ Polled.cal.calib_matrix_2 = cal.calib_matrix_2
       /\ Polled.cal.mv_current = cal.mv_current
       /\ Polled.dac.dac_1_target = dac.dac_1_target
       /\ Polled.dac.dac_2_target = dac.dac_2_target

Sweeping == cal.stage \in {"VCO_1", "VCO_2"}

\* C6: once the stage is VCO_1 or VCO_2 it changes only to DONE or to ERROR,
\* whatever the button does in any of the sub-stages.
C6_SweepEndsInDoneOrError ==
    [][Sweeping => cal'.stage \in {cal.stage, "DONE", "ERROR"}]_vars

\* a long press has been handled in the LINEARITY sub-stage, after the sweep
\* voltage had been raised, and the sweep goes on
C6_Witness ==
    /\ Sweeping
    /\ cal.stage_vco = "LINEARITY"
    /\ cal.mv_current >= CALIB_VCO_MV_MIN + 2
    /\ obs.evt = "long"

\* C7: ERROR is never left, and every DAC write of an iteration of the main
\* loop that began in ERROR has both targets at 0.
C7_ErrorTerminalThenZero ==
    [][cal.stage = "ERROR" => /\ cal'.stage = "ERROR"
                              /\ MainLoop => dac'.out.target_1 = 0 /\ dac'.out.target_2 = 0]_vars

\* the stage is ERROR, the button has been pressed since and the converter
\* holds zero
C7_Witness ==
    /\ cal.stage = "ERROR"
    /\ hw.btn_pin
    /\ hw.polled
    /\ dac.out.target_1 = 0
    /\ dac.out.target_2 = 0
    /\ dac.dac_1_target = 0

\* C7 as stated: ERROR is never left, and whenever the stage is ERROR the
\* converter holds what a write with both targets at 0 gave it (dac.out is the
\* last write).
C7_ErrorTerminalAlwaysZero ==
    /\ [][cal.stage = "ERROR" => cal'.stage = "ERROR"]_vars
    /\ [](cal.stage = "ERROR" => dac.out.target_1 = 0 /\ dac.out.target_2 = 0)

\* the integer note of a sample in cents, and the range of the notes recorded
NoteOf(cents) == (cents \div 100) % 256
InRange(cents) == cents >= 1200 /\ cents <= 12700

\* C8: when no edge has arrived for more than 2000 ms while the LINEARITY
\* sub-stage was active (the timer of the sub-stage was set more than 2000 ms
\* ago, the last edge is more than 2000000 us old) and the main loop has run
\* since, the sweep is not in VCO_x any more: it has gone to ERROR.
C8_SilenceAbortsSweep ==
    ~ (/\ Sweeping
       /\ cal.stage_vco = "LINEARITY"
       /\ hw.polled
       /\ cal.vco_calib_timer # 0
       /\ hw.now \div 1000 - cal.vco_calib_timer > CALIB_VCO_START_DELAY_LINEARITY
       /\ hw.now - cal.time_last > SIGNAL_TIMEOUT_US)

\* C9: the indexes of the table written in an iteration of the LINEARITY
\* sub-stage (the final note_max write included) are above the index written
\* last in the sweep, address_last, and increase; an iteration that goes to
\* ERROR writes nothing to the table.
C9_WritesIncrease ==
    (BtnRuns /\ Sweeping /\ cal.stage_vco = "LINEARITY")
    => \A m \in Polls :
          /\ \A k \in 1..Len(m.wr) :
                /\ cal.address_last # UNSET => m.wr[k] > cal.address_last
                /\ \A j \in 1..(k - 1) : m.wr[j] < m.wr[k]
          /\ m.cal.stage = "ERROR" => m.wr = <<>>

\* C10: in LINEARITY an iteration that takes a stabilized in-range sample (it
\* raises mv_current and leaves the sample in vco_cents_last) does not take
\* one whose note is more than 1 above the note of the sample before, nor one
\* whose note is below the note of the index written last: such a sample makes
\* the stage ERROR.
C10_JumpAbortsSweep ==
    (BtnRuns /\ Sweeping /\ cal.stage_vco = "LINEARITY")
    => \A m \in Polls :
          (m.cal.mv_current # cal.mv_current /\ InRange(m.cal.vco_cents_last))
          => /\ InRange(cal.vco_cents_last)
                  => NoteOf(m.cal.vco_cents_last) <= NoteOf(cal.vco_cents_last) + 1
             /\ cal.address_last # UNSET
                  => NoteOf(m.cal.vco_cents_last) >= cal.address_last + 12

\* 95 % of the voltage channel x can reach now (mv_end of vco()), in microvolts
SweepEnd(m) ==
    (get_current_maximum(m, IF m.cal.stage = "VCO_1" THEN 0 ELSE 1) * CALIB_VCO_MAX_SCALE_PCT)
        \div 100

\* C11: in LINEARITY the sweep ends at the stabilized sample (the iteration
\* raises mv_current) after which the sweep voltage is 95 % of the channel's
\* maximum or more, or whose note is above 12700 cents, and at no other; the
\* iteration that ends it sets note_max of the swept table to the note of the
\* last sample taken in the range 1200..12700, stores the closest voltage of
\* that note at the index note_max - 12 of the table, writes both tables to
\* the EEPROM, makes the stage DONE and sets both targets to 0.
C11_SweepTermination ==
    (BtnRuns /\ Sweeping /\ cal.stage_vco = "LINEARITY")
    => \A m \in Polls :
          LET x == IF cal.stage = "VCO_1" THEN 1 ELSE 2
              sampled == m.cal.mv_current # cal.mv_current
              ends == sampled /\ (\/ m.cal.mv_current * 1000 >= SweepEnd(m)
                                  \/ m.cal.vco_cents_last > 12700)
              table == TableOf(m.cal, x)
          IN /\ ends <=> m.cal.stage = "DONE"
             /\ m.cal.stage = "DONE"
                  => /\ InRange(cal.vco_cents_last)
                     /\ table.note_max = NoteOf(cal.vco_cents_last)
                     /\ m.oob = {}
                     /\ matrix_at(table, table.note_max - 12) = m.cal.vco_note_closest_mv
                     /\ m.nv = {"matrix_1", "matrix_2"}
                     /\ m.eeprom.matrix_1 = m.cal.calib_matrix_1
                     /\ m.eeprom.matrix_2 = m.cal.calib_matrix_2
                     /\ m.dac.dac_1_target = 0
                     /\ m.dac.dac_2_target = 0

\* ------------------------------------------------------------------------
\* Properties of the conversion of notes
\* ------------------------------------------------------------------------

\* the note the performance path converts for channel x, and the target it
\* has set
Query(x) ==
    ((IF x = 1 THEN perf.target_cents_1 ELSE perf.target_cents_2) + perf.pitch_bend) % 65536
Target(x) == IF x = 1 THEN dac.dac_1_target ELSE dac.dac_2_target

\* the bounds of the table t are a range of supported notes; every note of
\* the range has its entry
ValidBounds(t) == t.note_min \in 12..127 /\ t.note_max \in 12..127 /\ t.note_min < t.note_max
Complete(t) == ValidBounds(t) /\ \A n \in t.note_min..t.note_max : (n - 12) \in DOMAIN t.matrix
Entry(t, n) == matrix_at(t, n - 12)

\* C12: on a calibrated channel a query above note_max gives the stored value
\* of note_max, a query below note_min the stored value of note_min, and no
\* query in 1200..12700 gives a value outside the range of the stored entries.
C12_QueryClamped ==
    \A x \in {1, 2} :
        LET t == TableOf(cal, x)
            cents == Query(x)
            mv == note_to_mv_cal(cal, x - 1, cents)
        IN (Complete(t) /\ ~no_calibration(cal, t) /\ InRange(cents))
           => /\ cents > 100 * t.note_max => mv = 600 * Entry(t, t.note_max)
              /\ cents < 100 * t.note_min => mv = 600 * Entry(t, t.note_min)
              /\ \E lo, hi \in t.note_min..t.note_max :
                    600 * Entry(t, lo) <= mv /\ mv <= 600 * Entry(t, hi)

\* C13 as stated: an uncalibrated channel converts 6000 cents to 4000 mV; with
\* note_min = 48, note_max = 72, the entry of note 48 at 2500 mV, the entry of
\* note 72 at 5500 mV and no other entry stored, 6000 cents convert to
\* 2500 + (60 - 48) / (72 - 48) * (5500 - 2500) = 3750 mV.
C13_ExampleBetweenBounds ==
    LET t == TableOf(cal, 1)
    IN /\ (t.note_min = UNSET /\ t.note_max = UNSET)
            => note_to_mv_cal(cal, 0, 6000) = 600 * 4000
       /\ (t.note_min = 48 /\ t.note_max = 72 /\ DOMAIN t.matrix = {36, 60}
             /\ Entry(t, 48) = 2500 /\ Entry(t, 72) = 5500)
            => note_to_mv_cal(cal, 0, 6000) = 600 * 3750

\* C13: an uncalibrated channel converts 6000 cents to 4000 mV; with
\* note_min = 48 and note_max = 72 stored, 6000 cents convert to the entry of
\* note 60, whatever the entries of the notes 48 and 72 are: 4000 mV when the
\* entries of the notes 48..72 rise evenly from 2500 mV to 5500 mV.
C13_ExampleEntryOfNote ==
    LET t == TableOf(cal, 1)
    IN /\ (t.note_min = UNSET /\ t.note_max = UNSET)
            => note_to_mv_cal(cal, 0, 6000) = 600 * 4000
       /\ (t.note_min = 48 /\ t.note_max = 72)
            => /\ note_to_mv_cal(cal, 0, 6000) = 600 * Entry(t, 60)
               /\ t = LinearMatrix(48, 72, 2500, 125)
                    => note_to_mv_cal(cal, 0, 6000) = 600 * 4000

\* the note 60 has been played on channel 1 of a device that stores the
\* entries of the notes 48..72, and the target is 4000 mV
C13_Witness ==
    /\ TableOf(cal, 1) = LinearMatrix(48, 72, 2500, 125)
    /\ Query(1) = 6000
    /\ perf.target_cents_2 # NOTE_START_2_CENTS
    /\ perf.rd \cap {48, 49} # {}
    /\ Target(1) = 600 * 4000

\* the entries of the notes note_min..note_max of t do not decrease
NonDecreasing(t) ==
    \A n \in t.note_min..(t.note_max - 1) : Entry(t, n) <= Entry(t, n + 1)

\* C14: with a stored table whose entries do not decrease over
\* note_min..note_max (12 <= note_min < note_max <= 127), for the queries from
\* 100 * note_min to 100 * note_max cents note_to_mv_cal does not decrease and
\* gives the stored entry at every whole note, note_min and note_max included.
C14_MonotoneExactAtNotes ==
    \A x \in {1, 2} :
        LET t == TableOf(cal, x)
        IN (Complete(t) /\ NonDecreasing(t) /\ ~no_calibration(cal, t))
           => \A cents \in (100 * t.note_min)..(100 * t.note_max) :
                 /\ cents < 100 * t.note_max
                      => note_to_mv_cal(cal, x - 1, cents) <= note_to_mv_cal(cal, x - 1, cents + 1)
                 /\ cents % 100 = 0
                      => note_to_mv_cal(cal, x - 1, cents) = 600 * Entry(t, cents \div 100)

\* the note 50 bent up by 50 cents has been played on channel 1 of a device
\* that stores the entries of the notes 48..72, and the target lies halfway
\* between the entries of the notes 50 and 51
C14_Witness ==
    /\ TableOf(cal, 1) = LinearMatrix(48, 72, 2500, 125)
    /\ perf.target_cents_1 = 5000
    /\ perf.pitch_bend = 50
    /\ perf.rd \cap {38, 39} # {}
    /\ Target(1) = 300 * (Entry(TableOf(cal, 1), 50) + Entry(TableOf(cal, 1), 51))

\* C15: on a channel without a stored calibration (both bounds 255), for every
\* query from 1200 to 12700 cents note_to_mv_cal gives 1000 * (cents - 1200) /
\* 1200 mV (0 mV at 1200 cents, 1000 mV an octave) and does not decrease.
C15_DirectFormula ==
    \A x \in {1, 2} :
        LET t == TableOf(cal, x)
        IN (t.note_min = UNSET /\ t.note_max = UNSET)
           => /\ note_to_mv_cal(cal, x - 1, 1200) = 0
              /\ \A cents \in 1200..12700 :
                    /\ 2 * note_to_mv_cal(cal, x - 1, cents) = 1000 * (cents - 1200)   \* in 1/600 mV
                    /\ cents >= 2400
                         => note_to_mv_cal(cal, x - 1, cents)
                              = note_to_mv_cal(cal, x - 1, cents - 1200) + 600 * 1000
                    /\ cents < 12700
                         => note_to_mv_cal(cal, x - 1, cents)
                              <= note_to_mv_cal(cal, x - 1, cents + 1)

\* the note 51 bent up by 50 cents has been played on channel 1 of a device
\* without a calibration of the channel: no entry was read and the target is
\* 1000 * 3950 / 1200 mV
C15_Witness ==
    /\ TableOf(cal, 1).note_min = UNSET
    /\ TableOf(cal, 1).note_max = UNSET
    /\ Query(1) = 5150
    /\ perf.rd \cap 0..47 = {}
    /\ 2 * Target(1) = 1000 * 3950

\* queries below 1200 and above 12700 cents, the smallest and the largest of
\* the uint16_t argument among them
RejectedCents == {0, 1, 50, 1050, 1199, 12701, 12750, 32767, 32768, 65386, 65535}

\* C16: note_to_mv_cal gives 0 mV for every query below 1200 or above 12700
\* cents, for both channels, whatever the stored tables and the stage are, and
\* reads no entry of a table; the target the performance path sets for such a
\* note is 0.
C16_OutOfRangeIsZero ==
    \A x \in {1, 2} :
        /\ \A cents \in RejectedCents : \A stage \in CalibStage :
              /\ note_to_mv_cal([cal EXCEPT !.stage = stage], x - 1, cents) = 0
              /\ table_reads([cal EXCEPT !.stage = stage], x - 1, cents) = {}
        /\ (~cal.active /\ ~InRange(Query(x)))
              => /\ Target(x) = 0
                 /\ note_to_mv_cal(cal, x - 1, Query(x)) = 0
                 /\ table_reads(cal, x - 1, Query(x)) = {}

\* the note 0 bent down by 150 cents (65386 as uint16_t) has been played on
\* channel 1, which stores a calibration and had a voltage out before: no
\* entry of its table was read and its target is 0
C16_Witness ==
    /\ ~no_calibration(cal, TableOf(cal, 1))
    /\ perf.target_cents_1 = 0
    /\ perf.pitch_bend = 0 - 150
    /\ Query(1) = 65386
    /\ Target(1) = 0
    /\ perf.rd \cap 0..47 = {}
    /\ hw.cv[1] # 0

\* notes in cents at which a table with bad bounds is queried
BoundsProbes == {1200, 1250, 4700, 5050, 6000, 6150, 12700}

\* C17: when the stored bounds of a channel are not a range of supported
\* notes (a bound outside 12..127, or note_min >= note_max) note_to_mv_cal
\* gives the value of the direct formula; and whatever the bounds are it
\* reads the table at the indexes 0..115 only.
C17_BadBoundsUncalibrated ==
    \A x \in {1, 2} : \A cents \in BoundsProbes \cup {Query(x)} :
        /\ (~ValidBounds(TableOf(cal, x)) /\ InRange(cents))
              => note_to_mv_cal(cal, x - 1, cents) = note_to_mv(cents)
        /\ table_reads(cal, x - 1, cents) \subseteq 0..(MATRIX_LEN - 1)

\* ------------------------------------------------------------------------
\* Properties of the long press
\* ------------------------------------------------------------------------

\* the gain byte of channel x in the EEPROM e, the gain offset of channel x in
\* the Calibration object c
GainByte(e, x) == IF x = 1 THEN e.gain_1 ELSE e.gain_2
GainOffset(c, x) == IF x = 1 THEN c.gain_1_offset ELSE c.gain_2_offset

\* C18: a long press in GAIN_x writes the byte of the switches to the EEPROM
\* address x - 1 and nothing else, and moves the stage on (GAIN_1 ->
\* PREP_GAIN_2, GAIN_2 -> PREP_TUNER); after the iteration the gain offset of
\* channel x is the offset the byte written decodes to, and the offset
\* init_check() loads from the EEPROM at the next start is the offset the
\* output was computed with when the press was handled.
C18_GainPersistsLiveOffset ==
    \A x \in {1, 2} :
        (BtnRuns /\ cal.stage = (IF x = 1 THEN "GAIN_1" ELSE "GAIN_2"))
        => \A m \in Polls :
              m.evt = "long"
              => /\ m.nv = {IF x = 1 THEN "gain_1" ELSE "gain_2"}
                 /\ GainByte(m.eeprom, x) = hw.dip
                 /\ m.cal.stage = (IF x = 1 THEN "PREP_GAIN_2" ELSE "PREP_TUNER")
                 /\ GainOffset(m.cal, x) = dip_to_gain_offset(GainByte(m.eeprom, x))
                 /\ GainOffset(init_check(m.eeprom, FALSE), x) = GainOffset(cal, x)

\* C19: a long press in a preparation stage of a mode enters the mode, which
\* btn() leaves in its initial state: PREP_GAIN_x -> GAIN_x with the target of
\* channel x at 3000 mV and the other at 0 mV; PREP_TUNER -> TUNER with the
\* deviation 0 and the frequency 0; PREP_VCO_x -> VCO_x with the sub-stage
\* TUNER, both bounds of the table of channel x 255, the sweep timer 0 and
\* the progress 0.
C19_LongPressEntersMode ==
    (BtnRuns /\ Polled.evt = "long")
    => /\ cal.stage = "PREP_GAIN_1"
            => /\ Polled.cal.stage = "GAIN_1"
               /\ Polled.dac.dac_1_target = 600 * CALIB_DAC_TARGET_GAIN_1
               /\ Polled.dac.dac_2_target = 0
       /\ cal.stage = "PREP_GAIN_2"
            => /\ Polled.cal.stage = "GAIN_2"
               /\ Polled.dac.dac_1_target = 0
               /\ Polled.dac.dac_2_target = 600 * CALIB_DAC_TARGET_GAIN_2
       /\ cal.stage = "PREP_TUNER"
            => /\ Polled.cal.stage = "TUNER"
               /\ Polled.cal.tuner_deviation_cents = 0
               /\ Polled.cal.frequency = 0
       /\ \A x \in {1, 2} :
             cal.stage = (IF x = 1 THEN "PREP_VCO_1" ELSE "PREP_VCO_2")
             => /\ Polled.cal.stage = (IF x = 1 THEN "VCO_1" ELSE "VCO_2")
                /\ Polled.cal.stage_vco = "TUNER"
                /\ TableOf(Polled.cal, x).note_min = UNSET
                /\ TableOf(Polled.cal, x).note_max = UNSET
                /\ Polled.cal.vco_calib_timer = 0
                /\ Polled.cal.vco_calib_progress = 0

\* a long press has been handled in PREP_VCO_2 of a device that stores a
\* calibration of channel 2: the stage is VCO_2 and the bounds are reset
C19_Witness ==
    /\ obs.evt = "long"
    /\ cal.stage = "VCO_2"
    /\ eeprom.matrix_2.note_min = 60
    /\ cal.calib_matrix_2.note_min = UNSET
    /\ cal.calib_matrix_2.note_max = UNSET

\* C20: DONE is entered with stage_last naming the sweep that has ended, and
\* keeps it; in DONE a short press moves the stage to PREP_VCO_2 after the
\* sweep of channel 1 (VCO_1) and to PREP_RESET_VCO_1 after the sweep of
\* channel 2 (VCO_2), and the iteration that handles a long press leaves the
\* stage, stage_last, the tables, the EEPROM and the targets as they are.
C20_PressInDone ==
    /\ [](cal.stage = "DONE" /\ BtnRuns
            => \A m \in Polls :
                  /\ m.evt = "short"
                       => /\ cal.stage_last = "VCO_1" => m.cal.stage = "PREP_VCO_2"
                          /\ cal.stage_last = "VCO_2" => m.cal.stage = "PREP_RESET_VCO_1"
                  /\ m.evt = "long"
                       => /\ m.cal.stage = "DONE"
                          /\ m.cal.stage_last = cal.stage_last
                          /\ m.cal.calib_matrix_1 = cal.calib_matrix_1
                          /\ m.cal.calib_matrix_2 = cal.calib_matrix_2
                          /\ m.eeprom = eeprom
                          /\ m.dac.dac_1_target = dac.dac_1_target
                          /\ m.dac.dac_2_target = dac.dac_2_target)
    /\ [][/\ (Sweeping /\ cal'.stage = "DONE") => cal'.stage_last = cal.stage
          /\ (cal.stage = "DONE" /\ cal'.stage = "DONE") => cal'.stage_last = cal.stage_last]_vars

\* the sweep of channel 2 has ended in DONE and the short press handled there
\* has moved the stage to PREP_RESET_VCO_1
C20_Witness ==
    /\ obs.evt = "short"
    /\ cal.stage = "PREP_RESET_VCO_1"
    /\ cal.stage_last = "VCO_2"

\* ------------------------------------------------------------------------
\* Properties of the tuner, the storage, the timers and the sub-stages
\* ------------------------------------------------------------------------

\* C21: the iteration of the control loop that handles a long press in TUNER
\* ends with the stage PREP_VCO_1, the deviation 0 and both output targets
\* 0 mV (tuner() does not run again in it).
C21_LongPressExitsTuner ==
    (BtnRuns /\ cal.stage = "TUNER")
    => \A m \in Polls :
          m.evt = "long"
          => /\ m.cal.stage = "PREP_VCO_1"
             /\ m.cal.tuner_deviation_cents = 0
             /\ m.dac.dac_1_target = 0
             /\ m.dac.dac_2_target = 0

\* a long press has been handled in TUNER, where the tuner had set a target
\* frequency: the stage is PREP_VCO_1, the deviation and the targets are 0
C21_Witness ==
    /\ obs.evt = "long"
    /\ cal.stage = "PREP_VCO_1"
    /\ cal.target_frequency # 0
    /\ cal.tuner_deviation_cents = 0
    /\ dac.dac_1_target = 0
    /\ dac.dac_2_target = 0

\* the next call of Calibration::loop() confirms a gain, ends a sweep in DONE
\* or confirms a reset
StoragePoint(m) ==
    \/ m.evt = "long" /\ cal.stage \in {"GAIN_1", "GAIN_2"}
    \/ Sweeping /\ m.cal.stage = "DONE"
    \/ m.evt = "long" /\ cal.stage \in {"PREP_RESET_VCO_1", "PREP_RESET_VCO_2"}

\* C22: a call of Calibration::loop() writes the EEPROM only where it handles a
\* long press in GAIN_x, ends a sweep in DONE or handles a long press in
\* PREP_RESET_VCO_x, and it does write there; every other call (a short press,
\* a long press that enters a mode, a sweep in progress, the transition to
\* ERROR) and every step outside the control loop (an edge interrupt) leave the
\* EEPROM as it is, so a sweep that ends in ERROR leaves the stored tables
\* intact.
C22_StorageWrittenAtThreePoints ==
    /\ [](\A m \in Polls :
             /\ m.nv # {} <=> StoragePoint(m)
             /\ m.nv = {} => m.eeprom = eeprom
             /\ (Sweeping /\ m.cal.stage = "ERROR") => m.eeprom = eeprom)
    /\ [][eeprom' # eeprom => MainLoop /\ obs'.nv # {}]_vars

\* a sweep of channel 1 has ended in ERROR: the table in memory is no longer
\* the stored one, which is the table the session began with
C22_Witness ==
    /\ cal.stage = "ERROR"
    /\ obs.nv = {}
    /\ cal.calib_matrix_1 # eeprom.matrix_1
    /\ eeprom.matrix_1 = StoredMatrix(48, 3010)

\* C23: while the edges of the oscillator arrive less than 2000 ms apart, and
\* the last one less than that ago, no call of Calibration::loop() forces the
\* reading to zero or ends a sweep in ERROR, a wrap of micros() included.
C23_WrapNoSpuriousLoss ==
    (/\ cal.active
     /\ hw.period # 0
     /\ hw.period * 1000 < SIGNAL_TIMEOUT_US
     /\ hw.now - hw.edge_at < hw.period
     /\ cal.frequency_raw > 0
     /\ cal.frequency > 0)
    => \A m \in Polls :
          /\ m.cal.frequency_raw = cal.frequency_raw
          /\ m.cal.frequency > 0
          /\ m.cal.stage # "ERROR"

\* delays, in microseconds, after which the next edge arrives
EdgeDelaysUs == {100, 1000000}

\* C24: handle_interrupt() takes the first edge after power-on (time_last is
\* 0) and the first edge after Calibration::loop() has forced the reading to
\* zero as a new baseline only: time_last becomes the time of the edge and
\* frequency_raw stays as it is (zero after a gap).
C24_FirstEdgeDiscarded ==
    /\ (cal.active /\ cal.time_last = 0)
          => \A d \in EdgeDelaysUs :
                LET c == handle_interrupt(cal, Now.us + d)
                IN c.frequency_raw = cal.frequency_raw /\ c.time_last = Now.us + d
    /\ \A m \in Polls :
          (cal.frequency_raw > 0 /\ m.cal.frequency_raw = 0)
          => \A d \in EdgeDelaysUs :
                LET c == handle_interrupt(m.cal, Now.us + d)
                IN c.frequency_raw = 0 /\ c.time_last = Now.us + d

\* C26: vco_calib_progress (in thousandths) is within [0, 1] in every state
C26_ProgressWithinUnit ==
    cal.vco_calib_progress >= 0 /\ cal.vco_calib_progress <= 1000

\* the interval in MIDI ticks (24 per quarter note) the manual gives for the
\* positions of the clock divider switches: (OFF, ON) 1/8 note, (ON, OFF) 1/4
\* note, (ON, ON) 1/2 note, (OFF, OFF) whole note
ManualTicks(states) ==
    LET msb == (states \div 32) % 2 = 1
        lsb == (states \div 16) % 2 = 1
    IN IF ~msb /\ lsb THEN 12
       ELSE IF msb /\ ~lsb THEN 24
       ELSE IF msb /\ lsb THEN 48
       ELSE 96

\* C27: with the MIDI clock running the clock events are ManualTicks ticks
\* apart: an event comes with the tick that completes the interval the manual
\* gives for the position of the divider switches, and with no tick before it.
C27_DividerAsManual ==
    clock.object.source = "MIDI"
    => /\ clock.gap # 0 => clock.gap = ManualTicks(hw.dip)
       /\ clock.since < ManualTicks(hw.dip)

\* the output target, in 1/600 mV, of the channel the sweep of stage runs on
SweptTarget(stage, d) == IF stage = "VCO_1" THEN d.dac_1_target ELSE d.dac_2_target

\* C28: a sweep starts in the sub-stage TUNER and, while the stage stays VCO_x,
\* the sub-stage changes only from TUNER to LOWER and from LOWER to
\* LINEARITY. The step to LOWER sets the target of the swept channel to
\* 10 mV and clears the timer; the step to LINEARITY is taken more than
\* 2000 ms after an iteration that found the sub-stage LOWER, whatever the
\* frequency, and leaves the sweep voltage at 10 mV, the stabilization window
\* empty and no last-written index.
C28_SubStagesInOrder ==
    [][/\ (cal.stage \in {"PREP_VCO_1", "PREP_VCO_2"} /\ cal'.stage \in {"VCO_1", "VCO_2"})
            => cal'.stage_vco = "TUNER"
       /\ (Sweeping /\ cal'.stage = cal.stage /\ cal'.stage_vco # cal.stage_vco)
            => /\ <<cal.stage_vco, cal'.stage_vco>>
                     \in {<<"TUNER", "LOWER">>, <<"LOWER", "LINEARITY">>}
               /\ cal'.stage_vco = "LOWER"
                     => /\ SweptTarget(cal.stage, dac') = 600 * CALIB_VCO_MV_MIN
                        /\ cal'.vco_calib_timer = 0
               /\ cal'.stage_vco = "LINEARITY"
                     => /\ cal.vco_calib_timer # 0
                        /\ Now.ms - cal.vco_calib_timer > CALIB_VCO_START_DELAY_LINEARITY
                        /\ cal'.mv_current = CALIB_VCO_MV_MIN
                        /\ SweptTarget(cal.stage, dac') = 600 * CALIB_VCO_MV_MIN
                        /\ \A i \in 1..VCO_LAST_CENTS_STAB : cal'.vco_cents_buffer[i] = 0
                        /\ cal'.address_last = UNSET
       /\ (Sweeping /\ cal.stage_vco = "LOWER" /\ cal.vco_calib_timer # 0)
            => cal.vco_calib_timer <= Now.ms]_vars

\* the sweep of channel 2 has just entered LINEARITY, with a frequency measured
C28_Witness ==
    /\ cal.stage = "VCO_2"
    /\ cal.stage_vco = "LINEARITY"
    /\ cal.vco_calib_timer = 0
    /\ cal.mv_current = CALIB_VCO_MV_MIN
    /\ cal.address_last = UNSET
    /\ cal.frequency > 0

\* C29: a sweep leaves the sub-stage TUNER for LOWER only in an iteration
\* whose deviation is within +/-10 cents, more than 5000 ms after the timer
\* was started; an iteration of the sub-stage TUNER whose deviation is
\* outside +/-10 cents, the deviation INT16_MIN of a missing signal included,
\* restarts the timer and stays in TUNER.
C29_TunerWaitsForDeviation ==
    [][(Sweeping /\ cal.stage_vco = "TUNER" /\ cal'.stage = cal.stage /\ MainLoop)
          => /\ cal'.stage_vco = "LOWER"
                   => /\ cal'.tuner_deviation_cents \in (0 - CALIB_VCO_START_DEV_CENTS)
                                                         ..CALIB_VCO_START_DEV_CENTS
                      /\ cal.vco_calib_timer # 0
                      /\ Now.ms - cal.vco_calib_timer > CALIB_VCO_START_DELAY_INIT
             /\ cal'.tuner_deviation_cents \notin (0 - CALIB_VCO_START_DEV_CENTS)
                                                  ..CALIB_VCO_START_DEV_CENTS
                   => /\ cal'.stage_vco = "TUNER"
                      /\ cal'.vco_calib_timer = Now.ms]_vars

\* the sample s is within 1 cent of every entry of the window, none of them 0
Agrees(buffer, s) ==
    \A i \in 1..VCO_LAST_CENTS_STAB : buffer[i] # 0 /\ s - buffer[i] \in -1..1

\* the index vco() writes the next sample at
NextSlot(c) ==
    IF c.vco_cents_buffer_counter < VCO_LAST_CENTS_STAB - 1
    THEN c.vco_cents_buffer_counter + 1 ELSE 0

\* C30: in LINEARITY the sweep voltage either stays or goes up by exactly
\* 1 mV (the output follows it unless the increment ends the sweep), and it
\* goes up only for a sample within 1 cent of each of the 5 non-zero samples
\* in the window, which is emptied at every increment; a
\* sample that does not agree with the window leaves the sweep voltage, both
\* tables, the closest-millivolt tracker, the stage and the sub-stage
\* unchanged.
C30_VoltageStepsOnStabilized ==
    [][(Sweeping /\ cal.stage_vco = "LINEARITY")
          => /\ \/ /\ cal'.mv_current = cal.mv_current
                   /\ SweptTarget(cal.stage, dac') = SweptTarget(cal.stage, dac)
                \/ /\ cal'.mv_current = cal.mv_current + 1
                   /\ cal'.stage = cal.stage
                         => SweptTarget(cal.stage, dac') = 600 * cal'.mv_current
                   /\ Agrees(cal.vco_cents_buffer, cal'.vco_cents_last)
                   /\ \A i \in 1..VCO_LAST_CENTS_STAB : cal'.vco_cents_buffer[i] = 0
             /\ (/\ cal'.vco_cents_buffer_counter = NextSlot(cal)
                 /\ cal'.vco_cents_buffer =
                        [cal.vco_cents_buffer EXCEPT
                            ![NextSlot(cal) + 1] = cal'.vco_cents_buffer[NextSlot(cal) + 1]]
                 /\ ~Agrees(cal.vco_cents_buffer, cal'.vco_cents_buffer[NextSlot(cal) + 1]))
                   => /\ cal'.mv_current = cal.mv_current
                      /\ SweptTarget(cal.stage, dac') = SweptTarget(cal.stage, dac)
                      /\ cal'.calib_matrix_1 = cal.calib_matrix_1
                      /\ cal'.calib_matrix_2 = cal.calib_matrix_2
                      /\ cal'.vco_note_closest_mv = cal.vco_note_closest_mv
                      /\ cal'.stage = cal.stage
                      /\ cal'.stage_vco = cal.stage_vco]_vars

\* the sweep of channel 1 has raised its voltage once and taken the first
\* sample of the next window
C30_Witness ==
    /\ cal.stage = "VCO_1"
    /\ cal.stage_vco = "LINEARITY"
    /\ cal.mv_current = CALIB_VCO_MV_MIN + 1
    /\ cal.vco_cents_buffer_counter = 1
    /\ cal.vco_cents_buffer[2] # 0

\* C25: whenever loop() is inside one of its accesses to frequency_raw or
\* time_last the interrupts are disabled; the bytes it has read so far are
\* those of the variable as it stands, so the value it reads is one the
\* handler has written entire, and the handler never finds frequency_raw
\* partly cleared.
C25_SharedAccessAtomic ==
    /\ cpu.pc \in {"raw", "last", "zero"} => ~cpu.i
    /\ cpu.pc \in {"raw", "last"}
          => cpu.acc = IF cpu.n = SHARED_BYTES THEN shared_value(cal, cpu.pc)
                       ELSE shared_value(cal, cpu.pc) % (256 ^ cpu.n)
    /\ (cpu.pc = "zero" /\ cpu.n = SHARED_BYTES) => cal.frequency_raw = 0
    /\ cpu.i => \/ cpu.pc \in {"idle", "stages"}

\* an edge has arrived while loop() was reading time_last, three bytes done,
\* after the handler had measured a period
C25_Witness ==
    /\ cpu.pc = "last"
    /\ cpu.n = 3
    /\ cpu.intf
    /\ cal.frequency_raw > 0
    /\ cal.time_last > 65536

\* this step of a sweep in LINEARITY has taken a frequency sample
Sampled ==
    /\ Sweeping
    /\ cal.stage_vco = "LINEARITY"
    /\ \/ cal'.vco_cents_buffer_counter # cal.vco_cents_buffer_counter
       \/ cal'.mv_current # cal.mv_current

\* C31: in LINEARITY, once the voltage has been raised (vco_calib_timer is
\* then the time of the last increment), a sample is taken, and so the
\* voltage raised again, only CALIB_VCO_DELAY_BETWEEN_MV milliseconds or
\* more after the increment.
C31_SampleWaitsAfterIncrement ==
    [][(Sampled /\ cal.mv_current > CALIB_VCO_MV_MIN)
          => Now.ms - cal.vco_calib_timer >= CALIB_VCO_DELAY_BETWEEN_MV]_vars

\* C32: in LINEARITY, with the last stabilized sample a note of the table
\* (1200..12700 cents), vco_note_closest_mv is the voltage of the stabilized
\* sample with the smallest cents mod 100 among those of the current note,
\* the earliest of them where several have it.
C32_ClosestIsBestOfNote ==
    (/\ Sweeping
     /\ cal.stage_vco = "LINEARITY"
     /\ hw.best # NoBest
     /\ cal.vco_cents_last \in 1200..12700)
        => cal.vco_note_closest_mv = hw.best.mv

\* C33: hz_to_cents_deviation(target, measured) is INT16_MAX for a target
\* that is not positive, whatever was measured; INT16_MIN for a positive
\* target and a measured frequency that is not positive; otherwise a value
\* within INT16_MIN..INT16_MAX, which has the sign of measured - target, is
\* an extreme only from 27 octaves of distance on and always from 28 on.
C33_DeviationSaturates ==
    [][Deviate =>
          LET target == cal.target_frequency
              measured == cal.frequency
              dev == cal'.tuner_deviation_cents
          IN /\ target <= 0 => dev = INT16_MAX
             /\ (target > 0 /\ measured <= 0) => dev = INT16_MIN
             /\ (target > 0 /\ measured > 0)
                   => /\ dev \in INT16_MIN..INT16_MAX
                      /\ measured >= target => dev >= 0
                      /\ measured <= target => dev <= 0
                      /\ dev = INT16_MAX => measured \div target >= 2 ^ 27
                      /\ dev = INT16_MIN => target \div measured >= 2 ^ 27
                      /\ measured \div target >= 2 ^ 28 => dev = INT16_MAX
                      /\ target \div measured >= 2 ^ 28 => dev = INT16_MIN]_vars

\* the function has been called with neither frequency positive
C33_Witness ==
    /\ cal.target_frequency <= 0
    /\ cal.frequency <= 0
    /\ cal.tuner_deviation_cents = INT16_MAX

\* C34: a long press in PREP_RESET_VCO_x leaves the table of the other
\* channel, bounds and entries, as it was, in memory and in the EEPROM
\* (x = 1 and x = 2).
C34_ResetLeavesOtherChannel ==
    \A m \in Polls : \A x \in {1, 2} :
        (m.evt = "long" /\ cal.stage = (IF x = 1 THEN "PREP_RESET_VCO_1" ELSE "PREP_RESET_VCO_2"))
        => /\ TableOf(m.cal, 3 - x) = TableOf(cal, 3 - x)
           /\ (IF x = 1 THEN m.eeprom.matrix_2 ELSE m.eeprom.matrix_1)
                  = (IF x = 1 THEN eeprom.matrix_2 ELSE eeprom.matrix_1)

\* C35: every store to the table an iteration of a sweep makes, the one of
\* the termination included, has an index within 0..115.
C35_SweepWritesInTable ==
    \A m \in Polls :
        Sweeping => /\ m.oob = {}
                    /\ \A k \in 1..Len(m.wr) : m.wr[k] \in 0..(MATRIX_LEN - 1)

\* C36: when a sweep of channel x has ended in DONE and left bounds that are
\* a range of supported notes (12 <= note_min < note_max <= 127), the table
\* has an entry for every note from note_min to note_max (an entry never
\* written is not one written during the sweep) and the entries do not
\* decrease.
C36_DoneTableComplete ==
    \A x \in {1, 2} :
        (/\ cal.stage = "DONE"
         /\ cal.stage_last = (IF x = 1 THEN "VCO_1" ELSE "VCO_2")
         /\ ValidBounds(TableOf(cal, x)))
            => /\ Complete(TableOf(cal, x))
               /\ NonDecreasing(TableOf(cal, x))

\* C37: while the button held at power-up has not been pressed again, however
\* long it stays down and whether or not it has been released, the stage is
\* PREP_GAIN_1, the last iteration has called no handler and the next one
\* calls none.
C37_BootHoldFiresNothing ==
    /\ cal.stage = "PREP_GAIN_1"
    /\ obs.evt = "none"
    /\ hw.fired = "none"
    /\ \A m \in Polls : m.evt = "none" /\ m.cal.stage = "PREP_GAIN_1"

\* the button has been down for BTN_LONG_PRESS since power-up and the main
\* loop has run
C37_Witness ==
    /\ hw.btn_pin
    /\ hw.held_ms >= BTN_LONG_PRESS
    /\ hw.polled
    /\ Now.ms - BootUs \div 1000 > BTN_LONG_PRESS

\* C38: in MIDI clock mode, once loop() has run at a time CLOCK_HIGH_DURATION
\* or more after the last timing clock message (the pulse was raised by that
\* message or an earlier one), the clock output is low.
C38_PulseLowered ==
    (/\ clock.object.source = "MIDI"
     /\ hw.polled
     /\ Now.ms - clock.object.midi_tick_time_last >= CLOCK_HIGH_DURATION)
        => ~clock.object.out

\* C39: after any sequence of note-on, note-off and panic messages the
\* counter notes_pressed_n_c of either channel equals the number of notes
\* enabled for the channel in notes_enabled_c.
C39_CounterCountsEnabled ==
    /\ perf.midi.notes_pressed_n_1 = Cardinality(perf.midi.notes_enabled_1)
    /\ perf.midi.notes_pressed_n_2 = Cardinality(perf.midi.notes_enabled_2)
====
